---- MODULE Spec2Model ----
(***************************************************************************)
(* A model of the RAG subsystem of the HR agent backend: the markdown      *)
(* chunking engine (rag/ingestion/chunking_service.py), the ingestion      *)
(* pipeline (rag/rag_pipeline.py) with the document loader and the         *)
(* embedding service, and the retrieval service (rag/retrieval_service.py).*)
(*                                                                         *)
(* A Python str is a sequence of one-character strings; a Python list is a *)
(* sequence; a dict is a function whose DOMAIN is the set of its keys.     *)
(*                                                                         *)
(* SpecChunk applies chunk_markdown to every document and configuration of *)
(* a bounded set.  Spec runs the pipeline against a small file system and  *)
(* one Chroma collection: files are written, ingested and queried.         *)
(***************************************************************************)
EXTENDS Integers, Sequences, FiniteSets, TLC

VARIABLES
    cs,          \* ChunkingService: chunk_size, chunk_overlap, min_chunk_size
    content,     \* the content argument of chunk_markdown
    chunks,      \* the list chunk_markdown returned
    phase,       \* "input" before the call of chunk_markdown, "done" after
    fs,          \* the file system: path -> content, Missing or Undecodable
    collection,  \* the Chroma collection: id -> record
    last,        \* the last call made and its outcome
    mgr,         \* the RAGManager singleton: class and instance attributes
    thr,         \* the concurrent callers: each one's position and locals
    built,       \* the number of RAGPipeline instances constructed
    tables,      \* the database: the conversation and message tables
    leave        \* the database: leave requests, balances and approvals

chunkVars == <<cs, content, chunks, phase>>
pipeVars == <<fs, collection, last>>
ragVars == <<cs, content, chunks, phase, fs, collection, last>>
managerVars == <<mgr, thr, built>>
appVars == <<mgr, thr, built, tables, leave>>
exceptManager == <<ragVars, tables, leave>>
vars ==
    <<cs, content, chunks, phase, fs, collection, last, mgr, thr, built,
      tables, leave>>

(***************************************************************************)
(* Bounds of the model.                                                    *)
(***************************************************************************)
MaxLines == 4
MaxChunkSize == 4
MaxOverlap == 2
MaxMinChunk == 3

(***************************************************************************)
(* Python str and list primitives.                                         *)
(***************************************************************************)
NL == "\n"

\* str.isspace for one character of the model's alphabet
IsSpace(c) == c \in {" ", NL, "\t"}

MinOf(S) == CHOOSE x \in S : \A y \in S : x <= y
MaxOf(S) == CHOOSE x \in S : \A y \in S : x >= y

\* s.strip()
strip(s) ==
    LET ns == {i \in 1..Len(s) : ~IsSpace(s[i])}
    IN  IF ns = {} THEN <<>> ELSE SubSeq(s, MinOf(ns), MaxOf(ns))

\* s.split(sep): the pieces between the non-overlapping occurrences of sep,
\* found left to right
RECURSIVE split(_, _)
split(s, sep) ==
    LET n == Len(sep)
        hits == {j \in 1..(Len(s) - n + 1) : SubSeq(s, j, j + n - 1) = sep}
    IN  IF hits = {} THEN <<s>>
        ELSE LET j == MinOf(hits)
             IN  <<SubSeq(s, 1, j - 1)>> \o split(SubSeq(s, j + n, Len(s)), sep)

\* sep.join(parts)
RECURSIVE join(_, _)
join(parts, sep) ==
    IF parts = <<>> THEN <<>>
    ELSE IF Len(parts) = 1 THEN parts[1]
    ELSE parts[1] \o sep \o join(Tail(parts), sep)

\* s[-n:] for n > 0
suffix(s, n) == IF n >= Len(s) THEN s ELSE SubSeq(s, Len(s) - n + 1, Len(s))

\* {**base, **over}
merge_dict(base, over) == over @@ base

\* f"{filename}_chunk_{index}"
chunk_id_of(metadata, index) ==
    (IF "filename" \in DOMAIN metadata THEN metadata["filename"] ELSE "doc")
        \o "_chunk_" \o ToString(index)

(***************************************************************************)
(* re.match(r'^(#{2,3})\s+(.+)$', line) on a line without newline.  The    *)
(* greedy #{2,3} takes three '#' when there are three; the character after *)
(* the run must then be white space, so the run taken is decided by the    *)
(* line.  \s+ takes the whole white-space run and gives back its last      *)
(* character when nothing follows it.                                      *)
(***************************************************************************)
hash_run(line) ==
    IF Len(line) >= 3 /\ line[1] = "#" /\ line[2] = "#" /\ line[3] = "#" THEN 3
    ELSE IF Len(line) >= 2 /\ line[1] = "#" /\ line[2] = "#" THEN 2
    ELSE 0

space_run(line, h) ==
    MaxOf({w \in 0..(Len(line) - h) : \A j \in 1..w : IsSpace(line[h + j])})

header_match(line) ==
    LET h == hash_run(line)
        w == space_run(line, h)
    IN  /\ h > 0
        /\ w >= 1
        /\ (Len(line) > h + w \/ w >= 2)

\* match.group(2)
header_group(line) ==
    LET h == hash_run(line)
        w == space_run(line, h)
    IN  IF Len(line) > h + w THEN SubSeq(line, h + w + 1, Len(line))
        ELSE <<line[Len(line)]>>

(***************************************************************************)
(* ChunkingService._split_by_headers                                       *)
(***************************************************************************)
\* sum(len(l) + 1 for l in lines[:i]), i counted from 0
RECURSIVE line_offset(_, _)
line_offset(lines, i) ==
    IF i = 0 THEN 0 ELSE line_offset(lines, i - 1) + Len(lines[i]) + 1

\* the dict appended for a section; current_header None and '' are both <<>>
section_of(st) ==
    LET section_text == strip(join(st.current_section, <<NL>>))
    IN  [text |-> section_text,
         metadata |-> IF st.current_header # <<>>
                      THEN [section_header |-> st.current_header]
                      ELSE <<>>,
         start_index |-> st.current_start,
         end_index |-> st.current_start + Len(section_text)]

\* "Save previous section if it exists" / "Add final section"
save_section(st) ==
    IF st.current_section # <<>> /\ strip(join(st.current_section, <<NL>>)) # <<>>
    THEN Append(st.sections, section_of(st))
    ELSE st.sections

RECURSIVE scan_lines(_, _, _)
scan_lines(lines, i, st) ==
    IF i > Len(lines) THEN st
    ELSE IF header_match(lines[i])
    THEN scan_lines(lines, i + 1,
            [sections |-> save_section(st),
             current_section |-> <<lines[i]>>,
             current_header |-> strip(header_group(lines[i])),
             current_start |-> line_offset(lines, i - 1)])
    ELSE scan_lines(lines, i + 1,
            [st EXCEPT !.current_section = Append(@, lines[i])])

split_by_headers(text) ==
    LET lines == split(text, <<NL>>)
        st == scan_lines(lines, 1,
                [sections |-> <<>>, current_section |-> <<>>,
                 current_header |-> <<>>, current_start |-> 0])
        sections == save_section(st)
    IN  IF sections = <<>>
        THEN <<[text |-> text, metadata |-> <<>>,
                start_index |-> 0, end_index |-> Len(text)]>>
        ELSE sections

(***************************************************************************)
(* ChunkingService._split_with_overlap.  svc is the service: its           *)
(* chunk_size, chunk_overlap and min_chunk_size.                           *)
(***************************************************************************)
\* '\n\n'.join(current_chunk).strip()
chunk_text_of(st) == strip(join(st.current_chunk, <<NL, NL>>))

\* the TextChunk appended for current_chunk
overlap_chunk(st, metadata) ==
    [text |-> chunk_text_of(st),
     chunk_id |-> chunk_id_of(metadata, st.chunk_index),
     metadata |-> metadata,
     start_index |-> st.char_index - Len(chunk_text_of(st)),
     end_index |-> st.char_index]

\* "Save current chunk": appended only when its text is not empty
save_chunk(st, metadata) ==
    IF chunk_text_of(st) # <<>>
    THEN [st EXCEPT !.chunks = Append(@, overlap_chunk(st, metadata)),
                    !.chunk_index = @ + 1]
    ELSE st

\* "Start new chunk with overlap"
start_chunk(svc, st, para, metadata) ==
    LET saved == save_chunk(st, metadata)
        overlap_text == suffix(chunk_text_of(st), svc.chunk_overlap)
    IN  IF svc.chunk_overlap > 0 /\ chunk_text_of(st) # <<>>
        THEN [saved EXCEPT !.current_chunk = <<overlap_text, para>>,
                           !.current_length = Len(overlap_text) + Len(para) + 2]
        ELSE [saved EXCEPT !.current_chunk = <<para>>,
                           !.current_length = Len(para) + 2]

\* the paragraph closes the current chunk or joins it
place_paragraph(svc, st, para, metadata) ==
    IF st.current_length + Len(para) + 2 > svc.chunk_size /\ st.current_chunk # <<>>
    THEN start_chunk(svc, st, para, metadata)
    ELSE [st EXCEPT !.current_chunk = Append(@, para),
                    !.current_length = @ + Len(para) + 2]

\* a loop that never advances char_index
paragraph_step_stale_index(svc, st, para, metadata) ==
    place_paragraph(svc, st, para, metadata)

\* one turn of "for para in paragraphs"
paragraph_step(svc, st, para, metadata) ==
    [place_paragraph(svc, st, para, metadata)
        EXCEPT !.char_index = @ + Len(para) + 2]

RECURSIVE scan_paragraphs(_, _, _, _, _)
scan_paragraphs(svc, paragraphs, i, st, metadata) ==
    IF i > Len(paragraphs) THEN st
    ELSE scan_paragraphs(svc, paragraphs, i + 1,
            paragraph_step(svc, st, paragraphs[i], metadata), metadata)

split_with_overlap(svc, text, metadata, start_chunk_index, start_char_index) ==
    LET st == scan_paragraphs(svc, split(text, <<NL, NL>>), 1,
                [chunks |-> <<>>, current_chunk |-> <<>>, current_length |-> 0,
                 chunk_index |-> start_chunk_index,
                 char_index |-> start_char_index], metadata)
    IN  IF st.current_chunk # <<>>
        THEN save_chunk(st, metadata).chunks
        ELSE st.chunks

(***************************************************************************)
(* ChunkingService._merge_small_chunks                                     *)
(***************************************************************************)
\* a merge that keeps the text of current alone
merged_chunk_first_only(current, next_chunk) ==
    [text |-> current.text,
     chunk_id |-> current.chunk_id,
     metadata |-> current.metadata,
     start_index |-> current.start_index,
     end_index |-> next_chunk.end_index]

\* the TextChunk made of current and next_chunk
merged_chunk(current, next_chunk) ==
    [text |-> current.text \o <<NL, NL>> \o next_chunk.text,
     chunk_id |-> current.chunk_id,
     metadata |-> current.metadata,
     start_index |-> current.start_index,
     end_index |-> next_chunk.end_index]

\* "If chunk is too small and not the last one"
too_small(svc, list, i) ==
    Len(list[i].text) < svc.min_chunk_size /\ i < Len(list)

\* a merge pass that goes on with the chunk it has just merged
RECURSIVE merge_from_onto_next(_, _, _)
merge_from_onto_next(svc, list, i) ==
    IF i > Len(list) THEN <<>>
    ELSE IF too_small(svc, list, i)
    THEN <<merged_chunk(list[i], list[i + 1])>>
             \o merge_from_onto_next(svc, list, i + 1)
    ELSE <<list[i]>> \o merge_from_onto_next(svc, list, i + 1)

RECURSIVE merge_from(_, _, _)
merge_from(svc, list, i) ==
    IF i > Len(list) THEN <<>>
    ELSE IF too_small(svc, list, i)
    THEN <<merged_chunk(list[i], list[i + 1])>> \o merge_from(svc, list, i + 2)
    ELSE <<list[i]>> \o merge_from(svc, list, i + 1)

merge_small_chunks(svc, list) == merge_from(svc, list, 1)

(***************************************************************************)
(* ChunkingService.chunk_markdown                                          *)
(***************************************************************************)
\* the TextChunk of a section that is small enough
section_chunk(section, metadata, chunk_index) ==
    [text |-> strip(section.text),
     chunk_id |-> chunk_id_of(metadata, chunk_index),
     metadata |-> merge_dict(metadata, section.metadata),
     start_index |-> section.start_index,
     end_index |-> section.end_index]

\* the chunks one section adds, numbered from chunk_index
chunks_of_section(svc, section, metadata, chunk_index) ==
    IF Len(section.text) <= svc.chunk_size
    THEN <<section_chunk(section, metadata, chunk_index)>>
    ELSE split_with_overlap(svc, section.text,
            merge_dict(metadata, section.metadata), chunk_index,
            section.start_index)

\* a chunk_index that counts a split section as one chunk
next_chunk_index_by_one(chunk_index, added) == chunk_index + 1

\* chunk_index after a section added `added` chunks
next_chunk_index(chunk_index, added) == chunk_index + Len(added)

RECURSIVE scan_sections(_, _, _, _, _)
scan_sections(svc, sections, i, metadata, chunk_index) ==
    IF i > Len(sections) THEN <<>>
    ELSE LET added == chunks_of_section(svc, sections[i], metadata, chunk_index)
         IN  added \o scan_sections(svc, sections, i + 1, metadata,
                        next_chunk_index(chunk_index, added))

\* the chunks before the merge pass
unmerged_chunks(svc, text, metadata) ==
    scan_sections(svc, split_by_headers(text), 1, metadata, 0)

chunk_markdown(svc, text, metadata) ==
    merge_small_chunks(svc, unmerged_chunks(svc, text, metadata))

(***************************************************************************)
(* The documents and configurations chunk_markdown is applied to: every    *)
(* document of at most MaxLines lines drawn from LineSet, under every      *)
(* small configuration and under the pipeline's configuration.             *)
(***************************************************************************)
DefaultChunkSize == 500
DefaultChunkOverlap == 100
DefaultMinChunkSize == 100

PipelineConfig ==
    [chunk_size |-> DefaultChunkSize, chunk_overlap |-> DefaultChunkOverlap,
     min_chunk_size |-> DefaultMinChunkSize]

Configs ==
    [chunk_size : 1..MaxChunkSize, chunk_overlap : 0..MaxOverlap,
     min_chunk_size : 0..MaxMinChunk] \cup {PipelineConfig}

LineSet == {<<>>, <<"a">>, <<"a", "a", "a">>, <<" ">>, <<"#", "#", " ", "a">>}

LineLists == UNION {[1..n -> LineSet] : n \in 1..MaxLines}

Docs == {join(lines, <<NL>>) : lines \in LineLists}

\* the metadata DocumentLoader gives the document being chunked
DocMetadata(text) ==
    [source |-> "docs/policy.md", filename |-> "policy.md",
     file_type |-> "markdown", file_size |-> Len(text)]

(***************************************************************************)
(* DocumentLoader.  A path is its directory, stem and extension; a file is *)
(* absent, or present with a content that decodes as UTF-8 or does not.    *)
(***************************************************************************)
\* str(path)
path_str(path) == path.dir \o "/" \o path.stem \o "." \o path.ext

\* path.name
path_name(path) == path.stem \o "." \o path.ext

NoFile == [exists |-> FALSE, decodable |-> FALSE, content |-> <<>>]
BadFile == [exists |-> TRUE, decodable |-> FALSE, content |-> <<>>]
TextFile(text) == [exists |-> TRUE, decodable |-> TRUE, content |-> text]

\* load_markdown_file raises when the file is absent or cannot be decoded
load_fails(files, path) == ~files[path].exists \/ ~files[path].decodable

\* the dict load_markdown_file returns
load_markdown_file(files, path) ==
    [content |-> files[path].content,
     metadata |-> [source |-> path_str(path), filename |-> path_name(path),
                   file_type |-> "markdown",
                   file_size |-> Len(files[path].content)]]

\* directory.glob(pattern) in one of the orders the file system may list it;
\* a pattern is the extension it asks for ("md" is '*.md')
glob_lists(files, known, directory, pattern) ==
    LET found == {q \in known : /\ q.dir = directory
                                 /\ q.ext = pattern
                                 /\ files[q].exists}
    IN  {l \in [1..Cardinality(found) -> found] :
            \A i, j \in DOMAIN l : i # j => l[i] # l[j]}

\* load_from_directory for one listing: the documents that loaded
RECURSIVE loaded_paths(_, _, _)
loaded_paths(files, listing, i) ==
    IF i > Len(listing) THEN <<>>
    ELSE (IF load_fails(files, listing[i]) THEN <<>> ELSE <<listing[i]>>)
            \o loaded_paths(files, listing, i + 1)

(***************************************************************************)
(* EmbeddingService.  The sentence model is a fixed function from a text   *)
(* to a vector of two numbers.                                             *)
(***************************************************************************)
EmbedBatchSize == 32

\* self.model.encode(text)
encode(text) ==
    <<Len(text) % 3, Cardinality({i \in 1..Len(text) : text[i] = "#"}) % 3>>

embed_text(text) == encode(text)

\* self.model.encode(batch): one vector per text of the batch
encode_batch(batch) == [i \in 1..Len(batch) |-> encode(batch[i])]

\* a loop that stops before a last batch shorter than batch_size
RECURSIVE embed_from_full_batches(_, _, _)
embed_from_full_batches(texts, i, batch_size) ==
    IF i + batch_size - 1 > Len(texts) THEN <<>>
    ELSE encode_batch(SubSeq(texts, i, i + batch_size - 1))
            \o embed_from_full_batches(texts, i + batch_size, batch_size)

\* for i in range(0, len(texts), batch_size): ... extend
RECURSIVE embed_from(_, _, _)
embed_from(texts, i, batch_size) ==
    IF i > Len(texts) THEN <<>>
    ELSE encode_batch(SubSeq(texts, i,
                        IF i + batch_size - 1 < Len(texts)
                        THEN i + batch_size - 1 ELSE Len(texts)))
            \o embed_from(texts, i + batch_size, batch_size)

embed_batch(texts, batch_size) == embed_from(texts, 1, batch_size)

(***************************************************************************)
(* The Chroma collection, as the client the code constructs behaves        *)
(* (chromadb.PersistentClient, chromadb 0.4 and later): add raises         *)
(* DuplicateIDError when one call names an id twice, and leaves alone the  *)
(* record of an id the collection already holds; query returns the         *)
(* n_results nearest records in ascending distance and raises for          *)
(* n_results < 1.                                                          *)
(***************************************************************************)
EmptyCollection == << >>

has_duplicates(ids) == \E i, j \in DOMAIN ids : i # j /\ ids[i] = ids[j]

\* the record add stores for position i of its arguments
added_record(embeddings, documents, metadatas, i) ==
    [embedding |-> embeddings[i], document |-> documents[i],
     metadata |-> metadatas[i]]

\* collection.add(ids, embeddings, documents, metadatas), ids without duplicates
collection_add(store, ids, embeddings, documents, metadatas) ==
    [id \in DOMAIN store \cup {ids[i] : i \in DOMAIN ids} |->
        IF id \in DOMAIN store THEN store[id]
        ELSE added_record(embeddings, documents, metadatas,
                CHOOSE i \in DOMAIN ids : ids[i] = id)]

\* squared L2, the collection's default metric
distance(u, v) ==
    (u[1] - v[1]) * (u[1] - v[1]) + (u[2] - v[2]) * (u[2] - v[2])

\* where=filter_metadata: None (<<>>) or equality on metadata fields
where_matches(metadata, where) ==
    \A k \in DOMAIN where : k \in DOMAIN metadata /\ metadata[k] = where[k]

\* the lists of ids collection.query may return: the n nearest, nearest
\* first, ties in any order
query_results(store, query_embedding, n_results, where) ==
    LET cands == {id \in DOMAIN store : where_matches(store[id].metadata, where)}
        m == IF n_results < Cardinality(cands) THEN n_results
             ELSE Cardinality(cands)
        d(id) == distance(store[id].embedding, query_embedding)
    IN  {l \in [1..m -> cands] :
            /\ \A i, j \in 1..m : i < j => l[i] # l[j] /\ d(l[i]) <= d(l[j])
            /\ \A id \in cands :
                  (\A i \in 1..m : l[i] # id) => \A i \in 1..m : d(l[i]) <= d(id)}

(***************************************************************************)
(* RAGPipeline.ingest_documents and ingest_from_directory                  *)
(***************************************************************************)
\* "Step 1" and "Step 2": the chunks of the documents that load, in order
RECURSIVE load_and_chunk(_, _, _)
load_and_chunk(files, document_paths, i) ==
    IF i > Len(document_paths) THEN <<>>
    ELSE (IF load_fails(files, document_paths[i]) THEN <<>>
          ELSE LET doc == load_markdown_file(files, document_paths[i])
               IN  chunk_markdown(PipelineConfig, doc.content, doc.metadata))
            \o load_and_chunk(files, document_paths, i + 1)

\* "Step 4": the metadata stored with a chunk
stored_metadata(chunk) ==
    merge_dict(chunk.metadata,
               [chunk_id |-> chunk.chunk_id, text_length |-> Len(chunk.text)])

\* a write that keys each record by a fresh id
store_chunks_fresh_ids(store, ids, embeddings, texts, metadatas) ==
    collection_add(store,
        [i \in DOMAIN ids |->
            ids[i] \o "_" \o ToString(Cardinality(DOMAIN store))],
        embeddings, texts, metadatas)

\* the write of "Step 5"
store_chunks(store, ids, embeddings, texts, metadatas) ==
    collection_add(store, ids, embeddings, texts, metadatas)

\* a call that writes the chunks before it has their embeddings
embed_and_store_write_first(store, texts, ids, metadatas, embed_ok) ==
    IF has_duplicates(ids)
    THEN [outcome |-> "raise", value |-> 0, ids |-> ids, after |-> store,
          embed_calls |-> 0, add_calls |-> 1]
    ELSE [outcome |-> IF embed_ok THEN "return" ELSE "raise",
          value |-> IF embed_ok THEN Len(ids) ELSE 0, ids |-> ids,
          after |-> store_chunks(store, ids,
                        [i \in DOMAIN texts |-> <<0, 0>>], texts, metadatas),
          embed_calls |-> 1, add_calls |-> 1]

\* "Step 3" to "Step 5" for a list of chunks that is not empty: what texts,
\* ids and metadatas are handed to the embedding service and the store
embed_and_store(store, texts, ids, metadatas, embed_ok) ==
    IF ~embed_ok
    THEN [outcome |-> "raise", value |-> 0, ids |-> <<>>, after |-> store,
          embed_calls |-> 1, add_calls |-> 0]
    ELSE IF has_duplicates(ids)
    THEN [outcome |-> "raise", value |-> 0, ids |-> ids, after |-> store,
          embed_calls |-> 1, add_calls |-> 1]
    ELSE [outcome |-> "return", value |-> Len(ids), ids |-> ids,
          after |-> store_chunks(store, ids,
                        embed_batch(texts, EmbedBatchSize), texts, metadatas),
          embed_calls |-> 1, add_calls |-> 1]

\* a call without the "if not all_chunks" return
ingest_chunks_unguarded(store, all_chunks, embed_ok) ==
    embed_and_store(store,
        [i \in DOMAIN all_chunks |-> all_chunks[i].text],
        [i \in DOMAIN all_chunks |-> all_chunks[i].chunk_id],
        [i \in DOMAIN all_chunks |-> stored_metadata(all_chunks[i])],
        embed_ok)

\* the call from "if not all_chunks" on
ingest_chunks(store, all_chunks, embed_ok) ==
    IF all_chunks = <<>>
    THEN [outcome |-> "return", value |-> 0, ids |-> <<>>, after |-> store,
          embed_calls |-> 0, add_calls |-> 0]
    ELSE embed_and_store(store,
            [i \in DOMAIN all_chunks |-> all_chunks[i].text],
            [i \in DOMAIN all_chunks |-> all_chunks[i].chunk_id],
            [i \in DOMAIN all_chunks |-> stored_metadata(all_chunks[i])],
            embed_ok)

\* what one call does: its outcome, the value returned, the ids handed to
\* the store, the collection it leaves, and how often it called the
\* embedding service and the store.  embed_ok is whether the sentence model
\* answers.
ingest_documents(store, files, document_paths, embed_ok) ==
    ingest_chunks(store, load_and_chunk(files, document_paths, 1), embed_ok)

\* document_paths of ingest_from_directory for one listing of the directory
directory_paths(files, dir_exists, listing) ==
    IF dir_exists THEN loaded_paths(files, listing, 1) ELSE <<>>

\* the call once document_paths is known
ingest_paths(store, files, document_paths, embed_ok) ==
    IF document_paths = <<>>
    THEN [outcome |-> "return", value |-> 0, ids |-> <<>>, after |-> store,
          embed_calls |-> 0, add_calls |-> 0]
    ELSE ingest_documents(store, files, document_paths, embed_ok)

ingest_from_directory(store, files, dir_exists, listing, embed_ok) ==
    ingest_paths(store, files, directory_paths(files, dir_exists, listing),
                 embed_ok)

(***************************************************************************)
(* RetrievalService.retrieve                                               *)
(***************************************************************************)
ServiceTopK == 3

\* an Optional[int] argument: None, or the number given
None == << >>
Given(n) == <<n>>

\* k = top_k or self.top_k
effective_k(top_k) ==
    IF top_k = None \/ top_k[1] = 0 THEN ServiceTopK ELSE top_k[1]

\* a similarity that grows with the distance
similarity_of_inverted(dist) == dist - 1

\* "Convert distance to similarity"
similarity_of(dist) == 1 - dist

\* the dict built for position i of the store's answer
retrieved_chunk(store, query_embedding, answer, i) ==
    LET dist == distance(store[answer[i]].embedding, query_embedding)
    IN  [text |-> store[answer[i]].document,
         metadata |-> store[answer[i]].metadata,
         distance |-> dist,
         similarity |-> similarity_of(dist)]

\* "Format results"
format_results(store, query_embedding, answer) ==
    [i \in 1..Len(answer) |-> retrieved_chunk(store, query_embedding, answer, i)]

\* an except clause that raises again
on_retrieve_error_reraised == [outcome |-> "raise", value |-> <<>>]

\* what retrieve does when an exception reaches its except clause
on_retrieve_error == [outcome |-> "return", value |-> <<>>]

\* one call, for one answer of the store; embed_ok and store_ok are whether
\* the sentence model and the store answer.  asked is whether the store was
\* queried, answer what it returned.
retrieve(store, query, top_k, where, embed_ok, store_ok, answer) ==
    IF ~embed_ok
    THEN on_retrieve_error @@ [asked |-> FALSE, answer |-> <<>>]
    ELSE IF ~store_ok \/ effective_k(top_k) < 1
    THEN on_retrieve_error @@ [asked |-> TRUE, answer |-> <<>>]
    ELSE [outcome |-> "return",
          value |-> format_results(store, embed_text(query), answer),
          asked |-> TRUE, answer |-> answer]

(***************************************************************************)
(* RetrievalService.format_context                                         *)
(***************************************************************************)
\* "No relevant policy information found."
NoPolicyFound ==
    <<"N", "o", " ", "r", "e", "l", "e", "v", "a", "n", "t", " ", "p", "o",
      "l", "i", "c", "y", " ", "i", "n", "f", "o", "r", "m", "a", "t", "i",
      "o", "n", " ", "f", "o", "u", "n", "d", ".">>

\* "[Policy Reference "
ReferenceOpen ==
    <<"[", "P", "o", "l", "i", "c", "y", " ", "R", "e", "f", "e", "r", "e",
      "n", "c", "e", " ">>

\* "\nSection: "
SectionLabel ==
    <<NL, "S", "e", "c", "t", "i", "o", "n", ":", " ">>

\* "\nSource: "
SourceLabel ==
    <<NL, "S", "o", "u", "r", "c", "e", ":", " ">>

\* "\nContent:\n"
ContentLabel ==
    <<NL, "C", "o", "n", "t", "e", "n", "t", ":", NL>>

\* 'Policy Document'
DefaultSource ==
    <<"P", "o", "l", "i", "c", "y", " ", "D", "o", "c", "u", "m", "e", "n",
      "t">>

\* "\n---\n"
ContextSeparator == <<NL, "-", "-", "-", NL>>

\* the characters of the file names of the model
FileNameChars ==
    [name \in {"a.md", "b.md", "policy.md"} |->
        CASE name = "a.md" -> <<"a", ".", "m", "d">>
          [] name = "b.md" -> <<"b", ".", "m", "d">>
          [] OTHER -> <<"p", "o", "l", "i", "c", "y", ".", "m", "d">>]

\* f"{i}" for the positions the model reaches
decimal(i) == <<ToString(i)>>

\* dict.get(key, default)
dict_get(d, key, default) == IF key \in DOMAIN d THEN d[key] ELSE default

\* one context_part, numbered from 0
context_part_from_zero(chunk, i) ==
    LET section_header == dict_get(chunk.metadata, "section_header", <<>>)
        source == IF "filename" \in DOMAIN chunk.metadata
                  THEN FileNameChars[chunk.metadata.filename]
                  ELSE DefaultSource
    IN  ReferenceOpen \o decimal(i - 1) \o <<"]">>
        \o (IF section_header # <<>>
            THEN SectionLabel \o section_header ELSE <<>>)
        \o SourceLabel \o source
        \o ContentLabel \o chunk.text \o <<NL>>

\* one context_part: the i-th chunk, i from 1
context_part(chunk, i) ==
    LET section_header == dict_get(chunk.metadata, "section_header", <<>>)
        source == IF "filename" \in DOMAIN chunk.metadata
                  THEN FileNameChars[chunk.metadata.filename]
                  ELSE DefaultSource
    IN  ReferenceOpen \o decimal(i) \o <<"]">>
        \o (IF section_header # <<>>
            THEN SectionLabel \o section_header ELSE <<>>)
        \o SourceLabel \o source
        \o ContentLabel \o chunk.text \o <<NL>>

format_context(retrieved) ==
    IF retrieved = <<>>
    THEN NoPolicyFound
    ELSE join([i \in 1..Len(retrieved) |-> context_part(retrieved[i], i)],
              ContextSeparator)

(***************************************************************************)
(* The pipeline's world: three paths, two of them with the same file name, *)
(* the files they may hold, the directories and the queries.               *)
(***************************************************************************)
MaxPaths == 3
MaxTopK == 2

PathSet ==
    {[dir |-> "d1", stem |-> "a", ext |-> "md"],
     [dir |-> "d2", stem |-> "a", ext |-> "md"],
     [dir |-> "d1", stem |-> "b", ext |-> "md"]}

\* directories that exist; "d0" does not
ExistingDirs == {"d1", "d2"}
Directories == ExistingDirs \cup {"d0"}
Patterns == {"md", "txt"}

\* one section, one chunk
DocA == <<"a">>
\* three sections; the first two are merged
DocB == <<"b", "b", NL, "#", "#", " ", "c", NL, "#", "#", " ", "d">>

FileStates == {NoFile, BadFile, TextFile(DocA), TextFile(DocB)}

PathLists == UNION {[1..n -> PathSet] : n \in 0..MaxPaths}

Queries == {<<"a">>, <<"#", "#">>}
TopKs == {None} \cup {Given(n) : n \in 0..MaxTopK}
Wheres == {<< >>, [filename |-> "a.md"]}

IngestOps == {"ingest_documents", "ingest_from_directory", "reingest"}

Idle == [op |-> "none"]

(***************************************************************************)
(* RAGManager (rag/rag_manager.py): the singleton and its fields.  An      *)
(* object is named by the ordinal of the RAGPipeline it belongs to: the    *)
(* n-th pipeline constructed, its embedding service and its collection     *)
(* object all carry n.                                                     *)
(***************************************************************************)
MaxCalls == 2
Threads == {1, 2}

\* the class attributes before the module's last line has run
ManagerClass ==
    [_instance |-> FALSE, _initialized |-> FALSE,
     pipeline |-> None, retrieval_service |-> None,
     embedding_service |-> None]

\* RAGManager.__new__: the instance is created once and kept by the class
manager_new(m) ==
    IF ~m._instance THEN [m EXCEPT !._instance = TRUE] ELSE m

\* RAGManager.__init__ with its guard left out
manager_init_unguarded(m) ==
    [m EXCEPT !.pipeline = None, !.retrieval_service = None,
              !.embedding_service = None, !._initialized = TRUE]

\* RAGManager.__init__: the fields are set to None on the first run only
manager_init(m) ==
    IF ~m._initialized THEN manager_init_unguarded(m) ELSE m

\* RAGManager(): __new__, then __init__ on what it returned
RAGManager(m) == manager_init(manager_new(m))

\* the module's last line: rag_manager = RAGManager()
rag_manager == RAGManager(ManagerClass)

\* RAGPipeline(...): the n-th pipeline constructed, with its services
RAGPipeline(n, args) ==
    [id |-> n, embedding_model |-> args.embedding_model,
     embedding_service |-> n, collection |-> n]

\* RetrievalService(collection, embedding_service, top_k=3); the embedding
\* service is the manager's field as read, None or an object
RetrievalService(coll, es) ==
    [collection |-> coll, embedding_service |-> es, top_k |-> ServiceTopK]

\* RAGManager.initialize run by one caller alone, with p the pipeline that
\* RAGPipeline(...) constructs
initialize(m, p) ==
    IF m.pipeline # None
    THEN m
    ELSE [m EXCEPT !.pipeline = Given(p),
                   !.embedding_service = Given(p.embedding_service),
                   !.retrieval_service =
                       Given(RetrievalService(p.collection,
                                              Given(p.embedding_service)))]

\* the arguments of initialize: the embedding model, None by default
InitializeArgs == [embedding_model : {"default", "other"}]

\* a thread outside initialize, having made no call
ThreadStart ==
    [pc |-> "idle", calls |-> 0, args |-> [embedding_model |-> "default"],
     pipeline |-> None, embedding_service |-> None, collection |-> None,
     es_arg |-> None]

(***************************************************************************)
(* Conversations and messages (db/repositories/conversation_repository.py, *)
(* agent/conversation_manager.py).  The database is the conversation table *)
(* (conversation_id -> row) and the message table (a list of rows).  A     *)
(* conversation_id is the ordinal of the uuid4 drawn for it.               *)
(***************************************************************************)
MaxConversations == 2
MaxMessages == 4

EmptyDb == [conversations |-> << >>, messages |-> << >>]

\* intent=None on a message
NoIntent == "none"

\* str(uuid.uuid4()): an id no conversation has
uuid4(db) ==
    CHOOSE id \in 1..(MaxConversations + 1) :
        /\ id \notin DOMAIN db.conversations
        /\ \A j \in 1..(id - 1) : j \in DOMAIN db.conversations

\* ConversationRepository.create
ConversationRepository_create(db, conversation_id, employee_id) ==
    [db EXCEPT !.conversations =
        (conversation_id :> [employee_id |-> employee_id,
                             status |-> "ACTIVE", turn_count |-> 0]) @@ @]

\* ConversationRepository.get_by_conversation_id: the row, or None
get_by_conversation_id(db, conversation_id) ==
    IF conversation_id \in DOMAIN db.conversations
    THEN Given(db.conversations[conversation_id])
    ELSE None

\* ConversationRepository.update_activity
ConversationRepository_update_activity(db, conversation_id) ==
    IF get_by_conversation_id(db, conversation_id) # None
    THEN [db EXCEPT !.conversations[conversation_id].turn_count = @ + 1]
    ELSE db

\* ConversationRepository.update_status
ConversationRepository_update_status(db, conversation_id, status) ==
    IF get_by_conversation_id(db, conversation_id) # None
    THEN [db EXCEPT !.conversations[conversation_id].status = status]
    ELSE db

\* MessageRepository.get_last_message: the highest sequence_number, 0 if none
last_sequence_number(db, conversation_id) ==
    LET mine == {i \in DOMAIN db.messages :
                    db.messages[i].conversation_id = conversation_id}
    IN  IF mine = {} THEN 0
        ELSE CHOOSE n \in {db.messages[i].sequence_number : i \in mine} :
                 \A i \in mine : db.messages[i].sequence_number <= n

\* MessageRepository.create
MessageRepository_create(db, conversation_id, sender_type, text, intent) ==
    [db EXCEPT !.messages =
        Append(@, [conversation_id |-> conversation_id,
                   sender_type |-> sender_type,
                   content |-> text,
                   intent |-> intent,
                   sequence_number |->
                       last_sequence_number(db, conversation_id) + 1])]

\* ConversationManager.create_conversation: the database and the new id
create_conversation(db, employee_id) ==
    [db |-> ConversationRepository_create(db, uuid4(db), employee_id),
     conversation_id |-> uuid4(db),
     turn_count |-> 0]

\* ConversationManager.save_message
save_message(db, conversation_id, sender_type, text, intent) ==
    IF get_by_conversation_id(db, conversation_id) = None
    THEN db
    ELSE MessageRepository_create(db, conversation_id, sender_type, text,
                                  intent)

\* runner.end_conversation: the database after, and whether the id was found
end_conversation(db, conversation_id) ==
    [db |-> ConversationRepository_update_status(db, conversation_id,
                                                 "COMPLETED"),
     success |-> get_by_conversation_id(db, conversation_id) # None]

(***************************************************************************)
(* run_hr_agent (agent/runner.py).  env holds what the request meets: the  *)
(* database answering or raising (db_ok), the intent the classifier        *)
(* returns, the sentence model and the store up or down (health), the      *)
(* store's answer, an exception raised inside retrieve or format_context   *)
(* (fault) and the agent run succeeding or raising (agent_ok).             *)
(***************************************************************************)
\* "No relevant policy information found in the knowledge base."
NoRelevantPolicy ==
    <<"N", "o", " ", "r", "e", "l", "e", "v", "a", "n", "t", " ", "p", "o",
      "l", "i", "c", "y", " ", "i", "n", "f", "o", "r", "m", "a", "t", "i",
      "o", "n", " ", "f", "o", "u", "n", "d", " ", "i", "n", " ", "t", "h",
      "e", " ", "k", "n", "o", "w", "l", "e", "d", "g", "e", " ", "b", "a",
      "s", "e", ".">>

\* "Unable to retrieve policy information at this time."
UnableToRetrieve ==
    <<"U", "n", "a", "b", "l", "e", " ", "t", "o", " ", "r", "e", "t", "r",
      "i", "e", "v", "e", " ", "p", "o", "l", "i", "c", "y", " ", "i", "n",
      "f", "o", "r", "m", "a", "t", "i", "o", "n", " ", "a", "t", " ", "t",
      "h", "i", "s", " ", "t", "i", "m", "e", ".">>

\* response.message of the agent's final output
AgentReply == <<"o", "k">>

\* the policy retrieval's except clause letting the exception through
on_policy_error_propagated == [raised |-> TRUE, text |-> << >>]

\* the policy retrieval's except clause: a placeholder, nothing raised
on_policy_error == [raised |-> FALSE, text |-> UnableToRetrieve]

\* "if chunks:" and its else branch
context_of_chunks(retrieved, fault) ==
    IF retrieved = << >>
    THEN [raised |-> FALSE, text |-> NoRelevantPolicy]
    ELSE IF fault = "format_context"
    THEN on_policy_error
    ELSE [raised |-> FALSE, text |-> format_context(retrieved)]

\* "Step 3": policy_context, "" unless the intent is POLICY_QUESTION
policy_context(m, store, message, env) ==
    IF env.intent # "POLICY_QUESTION"
    THEN [raised |-> FALSE, text |-> << >>]
    ELSE IF m.retrieval_service = None \/ env.fault = "retrieve"
    THEN on_policy_error
    ELSE context_of_chunks(
             retrieve(store, message, Given(ServiceTopK), None,
                      env.health # "model_down", env.health # "store_down",
                      env.answer).value,
             env.fault)

\* the dict the except clause of run_hr_agent returns
error_response(db, id, turn, trace) ==
    [db |-> db, path |-> "error", conversation_id |-> id, success |-> FALSE,
     intent |-> "error", turn |-> turn] @@ trace

\* the conversation made "for error tracking"
error_conversation(c, trace) ==
    error_response(
        ConversationRepository_update_status(c.db, c.conversation_id,
                                             "FAILED"),
        [kind |-> "uuid", id |-> c.conversation_id], 0, trace)

\* the except clause of run_hr_agent; what its own try block raises is
\* logged and the fallback id returned
on_agent_error(db, req, env, trace) ==
    IF ~env.db_ok
    THEN error_response(db,
             IF req.conversation_id # None
             THEN [kind |-> "uuid", id |-> req.conversation_id[1]]
             ELSE [kind |-> "error", id |-> 0],
             0, trace)
    ELSE IF req.conversation_id # None
    THEN error_response(
             ConversationRepository_update_status(
                 db, req.conversation_id[1], "FAILED"),
             [kind |-> "uuid", id |-> req.conversation_id[1]],
             IF get_by_conversation_id(db, req.conversation_id[1]) # None
             THEN db.conversations[req.conversation_id[1]].turn_count
             ELSE 0,
             trace)
    ELSE error_conversation(create_conversation(db, req.employee_id), trace)

\* "Step 1": the conversation of the request, found or created
conversation_of(db, req) ==
    IF req.conversation_id # None
       /\ get_by_conversation_id(db, req.conversation_id[1]) # None
    THEN [db |-> db, conversation_id |-> req.conversation_id[1],
          turn_count |-> db.conversations[req.conversation_id[1]].turn_count]
    ELSE create_conversation(db, req.employee_id)

\* "Step 4" to "Step 11": the agent runs on the context message
run_agent(db, c, p, req, env) ==
    IF p.raised
    THEN on_agent_error(db, req, env,
                        [agent_ran |-> FALSE, policy_context |-> << >>])
    ELSE IF ~env.agent_ok
    THEN on_agent_error(db, req, env,
                        [agent_ran |-> TRUE, policy_context |-> p.text])
    ELSE [db |-> ConversationRepository_update_activity(
                     save_message(db, c.conversation_id, "ASSISTANT",
                                  AgentReply, env.intent),
                     c.conversation_id),
          path |-> "ok",
          conversation_id |-> [kind |-> "uuid", id |-> c.conversation_id],
          success |-> TRUE, intent |-> env.intent, turn |-> c.turn_count,
          agent_ran |-> TRUE, policy_context |-> p.text]

\* the user message is saved, the intent classified, the context retrieved
in_conversation(c, m, store, req, env) ==
    run_agent(save_message(c.db, c.conversation_id, "USER", req.message,
                           NoIntent),
              c, policy_context(m, store, req.message, env), req, env)

run_hr_agent(db, m, store, req, env) ==
    IF ~env.db_ok
    THEN on_agent_error(db, req, env,
                        [agent_ran |-> FALSE, policy_context |-> << >>])
    ELSE in_conversation(conversation_of(db, req), m, store, req, env)

(***************************************************************************)
(* The leave tables and LeaveService.  A date is a day number; every date  *)
(* of the model lies in the one year the balances are for.                 *)
(***************************************************************************)
MaxDay == 2
MaxRequests == 2
MaxAllocated == 1

\* date.today()
Today == 1

\* date.weekday(): day 1 is a Thursday
weekday(d) == (d + 2) % 7

\* the rows of the employee table
EmployeeRows == {1, 2}

\* LeaveTypeRepository.get_by_code: the id of the leave type, or None
LeaveTypeRepository_get_by_code(code) ==
    IF code = "ANNUAL" THEN Given(1) ELSE None

\* EmployeeRepository.get_by_id
EmployeeRepository_get_by_id(employee_id) ==
    IF employee_id \in EmployeeRows THEN Given(employee_id) ELSE None

\* the leave tables with the balances allocated and no request made:
\* employee 1 has MaxAllocated days of leave type 1, employee 2 has one
SeededLeaveDb ==
    [requests |-> << >>,
     balances |-> [k \in {<<1, 1>>, <<2, 1>>} |->
                     IF k[1] = 1
                     THEN [total_allocated |-> MaxAllocated, used |-> 0,
                           remaining |-> MaxAllocated]
                     ELSE [total_allocated |-> 1, used |-> 0,
                           remaining |-> 1]],
     approvals |-> << >>]

\* LeaveService._calculate_working_days
RECURSIVE calculate_working_days(_, _)
calculate_working_days(current, end_date) ==
    IF current > end_date THEN 0
    ELSE (IF weekday(current) < 5 THEN 1 ELSE 0)
         + calculate_working_days(current + 1, end_date)

\* LeaveBalanceRepository.get_balance
LeaveBalanceRepository_get_balance(db, employee_id, leave_type_id) ==
    IF <<employee_id, leave_type_id>> \in DOMAIN db.balances
    THEN Given(db.balances[<<employee_id, leave_type_id>>])
    ELSE None

\* a query without the case "New request completely covers existing request"
LeaveRequestRepository_check_conflicts_two_cases(db, employee_id, start_date, end_date) ==
    {id \in DOMAIN db.requests :
        /\ db.requests[id].employee_id = employee_id
        /\ db.requests[id].status \in {"PENDING", "APPROVED"}
        /\ \/ /\ db.requests[id].start_date <= start_date
              /\ db.requests[id].end_date >= start_date
           \/ /\ db.requests[id].start_date <= end_date
              /\ db.requests[id].end_date >= end_date}

\* LeaveRequestRepository.check_conflicts: the ids of the rows selected
LeaveRequestRepository_check_conflicts(db, employee_id, start_date, end_date) ==
    {id \in DOMAIN db.requests :
        /\ db.requests[id].employee_id = employee_id
        /\ db.requests[id].status \in {"PENDING", "APPROVED"}
        /\ \/ /\ db.requests[id].start_date <= start_date
              /\ db.requests[id].end_date >= start_date
           \/ /\ db.requests[id].start_date <= end_date
              /\ db.requests[id].end_date >= end_date
           \/ /\ db.requests[id].start_date >= start_date
              /\ db.requests[id].end_date <= end_date}

\* LeaveRequestRepository.create: the row gets the next id
LeaveRequestRepository_create(db, request_data) ==
    [db EXCEPT !.requests = Append(@, request_data)]

\* LeaveRequestRepository.get_by_id
LeaveRequestRepository_get_by_id(db, request_id) ==
    IF request_id \in DOMAIN db.requests
    THEN Given(db.requests[request_id]) ELSE None

\* LeaveRequestRepository.update_status
LeaveRequestRepository_update_status(db, request_id, status) ==
    IF request_id \in DOMAIN db.requests
    THEN [db EXCEPT !.requests[request_id].status = status]
    ELSE db

\* LeaveBalanceRepository.update_balance
LeaveBalanceRepository_update_balance(db, employee_id, leave_type_id, days_to_deduct) ==
    IF <<employee_id, leave_type_id>> \in DOMAIN db.balances
    THEN [db EXCEPT
            !.balances[<<employee_id, leave_type_id>>].used =
                @ + days_to_deduct,
            !.balances[<<employee_id, leave_type_id>>].remaining =
                @ - days_to_deduct]
    ELSE db

\* LeaveApprovalRepository.create
LeaveApprovalRepository_create(db, approval_data) ==
    [db EXCEPT !.approvals = Append(@, approval_data)]

\* raise LeaveServiceException(...): nothing was written
LeaveServiceException(db) == [outcome |-> "LeaveServiceException", db |-> db]

\* a service method returns its dict
Returned(db) == [outcome |-> "return", db |-> db]

\* apply_leave from "# 5. Check leave balance" on
apply_with_days(db, employee_id, leave_type_id, start_date, end_date, working_days) ==
    IF LeaveBalanceRepository_get_balance(db, employee_id, leave_type_id) = None
    THEN LeaveServiceException(db)
    ELSE IF LeaveBalanceRepository_get_balance(db, employee_id,
                leave_type_id)[1].remaining < working_days
    THEN LeaveServiceException(db)
    ELSE IF LeaveRequestRepository_check_conflicts(db, employee_id,
                start_date, end_date) # {}
    THEN LeaveServiceException(db)
    ELSE Returned(LeaveRequestRepository_create(db,
            [employee_id |-> employee_id, leave_type_id |-> leave_type_id,
             start_date |-> start_date, end_date |-> end_date,
             total_days |-> working_days, status |-> "PENDING"]))

\* LeaveService.apply_leave
apply_leave(db, employee_id, leave_type_code, start_date, end_date) ==
    IF EmployeeRepository_get_by_id(employee_id) = None
    THEN LeaveServiceException(db)
    ELSE IF LeaveTypeRepository_get_by_code(leave_type_code) = None
    THEN LeaveServiceException(db)
    ELSE IF start_date < Today THEN LeaveServiceException(db)
    ELSE IF end_date < start_date THEN LeaveServiceException(db)
    ELSE IF calculate_working_days(start_date, end_date) < 1
    THEN LeaveServiceException(db)
    ELSE apply_with_days(db, employee_id,
            LeaveTypeRepository_get_by_code(leave_type_code)[1],
            start_date, end_date,
            calculate_working_days(start_date, end_date))

\* approve_leave, "# 3. Create approval record" and "# 4. Update request
\* status"
record_decision(db, request_id, approver_person_id, action) ==
    Returned(LeaveRequestRepository_update_status(
        LeaveApprovalRepository_create(db,
            [leave_request_id |-> request_id,
             approver_person_id |-> approver_person_id, action |-> action]),
        request_id, action))

\* approve_leave from "# 2. Update leave balance if approved" on
decide_pending(db, leave_request, request_id, approver_person_id, action) ==
    IF action = "APPROVED"
    THEN IF \/ LeaveBalanceRepository_get_balance(db,
                   leave_request.employee_id,
                   leave_request.leave_type_id) = None
            \/ LeaveBalanceRepository_get_balance(db,
                   leave_request.employee_id,
                   leave_request.leave_type_id)[1].remaining
                 < leave_request.total_days
         THEN LeaveServiceException(db)
         ELSE record_decision(
                LeaveBalanceRepository_update_balance(db,
                    leave_request.employee_id, leave_request.leave_type_id,
                    leave_request.total_days),
                request_id, approver_person_id, action)
    ELSE record_decision(db, request_id, approver_person_id, action)

\* approve_leave without 'if leave_request.status != "PENDING"'
approve_leave_any_status(db, request_id, approver_person_id, action) ==
    IF LeaveRequestRepository_get_by_id(db, request_id) = None
    THEN LeaveServiceException(db)
    ELSE decide_pending(db, LeaveRequestRepository_get_by_id(db, request_id)[1],
                        request_id, approver_person_id, action)

\* LeaveService.approve_leave
approve_leave(db, request_id, approver_person_id, action) ==
    IF LeaveRequestRepository_get_by_id(db, request_id) = None
    THEN LeaveServiceException(db)
    ELSE IF LeaveRequestRepository_get_by_id(db, request_id)[1].status
            # "PENDING"
    THEN LeaveServiceException(db)
    ELSE decide_pending(db, LeaveRequestRepository_get_by_id(db, request_id)[1],
                        request_id, approver_person_id, action)

\* LeaveService.cancel_leave
cancel_leave(db, request_id, employee_id) ==
    IF LeaveRequestRepository_get_by_id(db, request_id) = None
    THEN LeaveServiceException(db)
    ELSE IF LeaveRequestRepository_get_by_id(db, request_id)[1].employee_id
            # employee_id
    THEN LeaveServiceException(db)
    ELSE IF LeaveRequestRepository_get_by_id(db, request_id)[1].status
            # "PENDING"
    THEN LeaveServiceException(db)
    ELSE Returned(LeaveRequestRepository_update_status(db, request_id,
                                                       "CANCELLED"))

(***************************************************************************)
(* The objects outside the RAG pipeline as they are when nothing has       *)
(* called them.                                                            *)
(***************************************************************************)
ManagerIdle ==
    /\ mgr = ManagerClass
    /\ thr = [t \in Threads |-> ThreadStart]
    /\ built = 0

AppIdle ==
    /\ ManagerIdle
    /\ tables = EmptyDb
    /\ leave = SeededLeaveDb

RagIdle ==
    /\ cs = PipelineConfig
    /\ content = <<>>
    /\ chunks = <<>>
    /\ phase = "idle"
    /\ fs = [p \in PathSet |-> NoFile]
    /\ collection = EmptyCollection
    /\ last = Idle

(***************************************************************************)
(* SpecChunk: chunk_markdown on every document and configuration.          *)
(***************************************************************************)
InitChunk ==
    /\ cs \in Configs
    /\ content \in Docs
    /\ chunks = <<>>
    /\ phase = "input"
    /\ fs = [p \in PathSet |-> NoFile]
    /\ collection = EmptyCollection
    /\ last = Idle
    /\ AppIdle

ChunkMarkdown ==
    /\ phase = "input"
    /\ chunks' = chunk_markdown(cs, content, DocMetadata(content))
    /\ phase' = "done"
    /\ UNCHANGED <<cs, content, fs, collection, last>>
    /\ UNCHANGED appVars

NextChunk == ChunkMarkdown

SpecChunk == InitChunk /\ [][NextChunk]_vars

(***************************************************************************)
(* Spec: a client writes files, ingests them and observes each outcome     *)
(* before its next call.                                                   *)
(***************************************************************************)
Init ==
    /\ cs = PipelineConfig
    /\ content = <<>>
    /\ chunks = <<>>
    /\ phase = "idle"
    /\ fs = [p \in PathSet |-> NoFile]
    /\ collection = EmptyCollection
    /\ last = Idle
    /\ AppIdle

\* the file at path is created, replaced or removed
WriteFile ==
    /\ last = Idle
    /\ \E p \in PathSet, f \in FileStates :
          /\ f # fs[p]
          /\ fs' = [fs EXCEPT ![p] = f]
    /\ UNCHANGED <<collection, last>>
    /\ UNCHANGED chunkVars
    /\ UNCHANGED appVars

\* a call of the pipeline ends: the collection is as the call left it, and
\* the call and its outcome are on record
Ingested(call, r) ==
    /\ collection' = r.after
    /\ last' = call @@ [outcome |-> r.outcome, value |-> r.value,
                        ids |-> r.ids, embed_calls |-> r.embed_calls,
                        add_calls |-> r.add_calls]
    /\ UNCHANGED fs
    /\ UNCHANGED chunkVars
    /\ UNCHANGED appVars

IngestDocuments ==
    /\ last = Idle
    /\ \E document_paths \in PathLists, embed_ok \in BOOLEAN :
          Ingested([op |-> "ingest_documents", paths |-> document_paths,
                    embed_ok |-> embed_ok, before |-> collection],
                   ingest_documents(collection, fs, document_paths, embed_ok))

IngestFromDirectory ==
    /\ last = Idle
    /\ \E directory \in Directories, pattern \in Patterns, embed_ok \in BOOLEAN :
          \E listing \in glob_lists(fs, PathSet, directory, pattern) :
             Ingested([op |-> "ingest_from_directory", directory |-> directory,
                       pattern |-> pattern, listing |-> listing,
                       embed_ok |-> embed_ok, before |-> collection],
                      ingest_from_directory(collection, fs,
                          directory \in ExistingDirs, listing, embed_ok))

\* the documents of a call that returned are ingested again, unchanged
Reingest ==
    /\ last.op = "ingest_documents"
    /\ last.outcome = "return"
    /\ \E embed_ok \in BOOLEAN :
          Ingested([op |-> "reingest", paths |-> last.paths,
                    embed_ok |-> embed_ok, before |-> collection,
                    first |-> [value |-> last.value, ids |-> last.ids,
                               size_before |->
                                   Cardinality(DOMAIN last.before)]],
                   ingest_documents(collection, fs, last.paths, embed_ok))

\* a call of retrieve ends: it wrote nothing
Retrieved(call, r) ==
    /\ last' = call @@ r
    /\ UNCHANGED <<fs, collection>>
    /\ UNCHANGED chunkVars
    /\ UNCHANGED appVars

\* health says which of the services retrieve calls is down, if any
Retrieve ==
    /\ last = Idle
    /\ \E query \in Queries, top_k \in TopKs, where \in Wheres,
          health \in {"up", "model_down", "store_down"} :
          \E answer \in query_results(collection, embed_text(query),
                                      effective_k(top_k), where) :
             Retrieved([op |-> "retrieve", query |-> query, top_k |-> top_k,
                        where |-> where, health |-> health,
                        before |-> collection],
                       retrieve(collection, query, top_k, where,
                                health # "model_down", health # "store_down",
                                answer))

\* the client has seen the outcome of its call
Observe ==
    /\ last # Idle
    /\ last' = Idle
    /\ UNCHANGED <<fs, collection>>
    /\ UNCHANGED chunkVars
    /\ UNCHANGED appVars

Next ==
    \/ WriteFile
    \/ IngestDocuments
    \/ IngestFromDirectory
    \/ Reingest
    \/ Observe

Spec == Init /\ [][Next]_vars

(***************************************************************************)
(* SpecRetrieve: the directories are ingested and the collection queried.  *)
(***************************************************************************)
NextRetrieve ==
    \/ WriteFile
    \/ IngestFromDirectory
    \/ Retrieve
    \/ Observe

SpecRetrieve == Init /\ [][NextRetrieve]_vars

(***************************************************************************)
(* Properties of chunk_markdown, under SpecChunk.                          *)
(***************************************************************************)
\* the chunks chunk_markdown merged from
Unmerged == unmerged_chunks(cs, content, DocMetadata(content))

\* the sections of the document
Sections == split_by_headers(content)

\* C1: in the list chunk_markdown returns, every chunk but the last has
\* len(text) >= min_chunk_size.
C1_NonFinalChunksReachMinSize ==
    phase = "done" =>
        \A i \in 1..(Len(chunks) - 1) : Len(chunks[i].text) >= cs.min_chunk_size

\* C7: every chunk chunk_markdown returns has 0 <= start_index <= end_index.
C7_IndexesOrdered ==
    phase = "done" =>
        \A i \in DOMAIN chunks :
            0 <= chunks[i].start_index /\ chunks[i].start_index <= chunks[i].end_index

\* a document with a section emitted as it is and a section split with
\* overlap, two of whose chunks were merged
C7_Witness ==
    /\ phase = "done"
    /\ cs.chunk_overlap > 0
    /\ \E i \in DOMAIN Sections : Len(Sections[i].text) > cs.chunk_size
    /\ \E i \in DOMAIN Sections : Len(Sections[i].text) <= cs.chunk_size
    /\ Len(Unmerged) > Len(chunks)
    /\ \E i \in DOMAIN chunks : chunks[i].start_index > 0

\* the ordinals n for which the chunk's id is "{filename}_chunk_{n}"
OrdinalsOf(chunk) ==
    {n \in 0..Len(content) :
        chunk.chunk_id = chunk_id_of(DocMetadata(content), n)}

\* C8: the chunk_ids of one chunk_markdown call are pairwise distinct, and
\* the ordinal in the id strictly increases along the returned list.
C8_ChunkIdsIncrease ==
    phase = "done" =>
        /\ \A i \in DOMAIN chunks : OrdinalsOf(chunks[i]) # {}
        /\ \A i, j \in DOMAIN chunks :
              i < j =>
                /\ chunks[i].chunk_id # chunks[j].chunk_id
                /\ \A a \in OrdinalsOf(chunks[i]), b \in OrdinalsOf(chunks[j]) :
                      a < b

\* a document with a section split into several chunks, a later section, and
\* a merge that dropped an id
C8_Witness ==
    /\ phase = "done"
    /\ Len(Sections) >= 2
    /\ Len(Sections[1].text) > cs.chunk_size
    /\ Len(Unmerged) > Len(Sections)
    /\ Len(chunks) < Len(Unmerged)
    /\ Len(chunks) >= 2

(***************************************************************************)
(* Properties of ingestion, under Spec.                                    *)
(***************************************************************************)
\* the chunks the last call accumulated: the files are as the call read them
LastChunks == load_and_chunk(fs, last.paths, 1)

\* the record a write of chunk stores
RecordOf(chunk) ==
    [embedding |-> embed_text(chunk.text), document |-> chunk.text,
     metadata |-> stored_metadata(chunk)]

\* C2: when an ingest produces a chunk whose id the collection already
\* holds, the call does not fail and the collection afterwards holds this
\* ingest's text, embedding and metadata under that id.
C2_LaterIngestOverwrites ==
    (/\ last.op \in {"ingest_documents", "reingest"}
     /\ last.add_calls = 1
     /\ ~has_duplicates(last.ids))
    => /\ last.outcome = "return"
       /\ \A i \in DOMAIN LastChunks :
             LastChunks[i].chunk_id \in DOMAIN last.before =>
                /\ LastChunks[i].chunk_id \in DOMAIN collection
                /\ collection[LastChunks[i].chunk_id] = RecordOf(LastChunks[i])

\* C3: ingesting the same unchanged documents again gives the same
\* chunk_ids, completes with the same count, and leaves the number of
\* records in the collection as it was after the first ingest.
C3_ReingestIdempotent ==
    (last.op = "reingest" /\ last.embed_ok)
    => /\ last.outcome = "return"
       /\ last.ids = last.first.ids
       /\ last.value = last.first.value
       /\ Cardinality(DOMAIN collection) = Cardinality(DOMAIN last.before)

\* a second ingest of a document of two chunks that the first ingest added
C3_Witness ==
    /\ last.op = "reingest"
    /\ last.embed_ok
    /\ last.value >= 2
    /\ last.first.size_before < Cardinality(DOMAIN last.before)

\* C9: a document that fails to load is skipped alone: the call returns the
\* number of chunks of the documents that loaded, and each of them is in the
\* collection.
C9_FailedDocumentSkippedAlone ==
    (/\ last.op = "ingest_documents"
     /\ last.embed_ok
     /\ \E i \in DOMAIN last.paths : load_fails(fs, last.paths[i]))
    => /\ last.outcome = "return"
       /\ last.value = Len(LastChunks)
       /\ \A i \in DOMAIN LastChunks :
             LastChunks[i].chunk_id \in DOMAIN collection

\* the document paths of the last call of ingest_from_directory
LastDirectoryPaths ==
    directory_paths(fs, last.directory \in ExistingDirs, last.listing)

\* the last call was an ingestion that had no chunk to ingest
NoChunks ==
    \/ last.op \in {"ingest_documents", "reingest"} /\ LastChunks = <<>>
    \/ /\ last.op = "ingest_from_directory"
       /\ load_and_chunk(fs, LastDirectoryPaths, 1) = <<>>

\* C10: an ingestion that yields no chunk returns 0, raises nothing, calls
\* neither the embedding service nor the store, and leaves the collection
\* as it was.
C10_NoChunksNoWrite ==
    NoChunks =>
        /\ last.outcome = "return"
        /\ last.value = 0
        /\ last.embed_calls = 0
        /\ last.add_calls = 0
        /\ collection = last.before

\* every document of a list of two or more failed, on a collection that
\* holds records
C10_Witness ==
    /\ last.op = "ingest_documents"
    /\ Len(last.paths) >= 2
    /\ \A i \in DOMAIN last.paths : load_fails(fs, last.paths[i])
    /\ \E i \in DOMAIN last.paths : fs[last.paths[i]].exists
    /\ DOMAIN collection # {}
    /\ last.value = 0

\* the call embedded made once and, when that went well, wrote it once
EmbeddedThenWritten(call, before, made) ==
    made # <<>>
    => /\ call.embed_calls = 1
       /\ ~call.embed_ok
             => /\ call.add_calls = 0
                /\ call.outcome = "raise"
                /\ collection = before
       /\ call.embed_ok
             => /\ call.add_calls = 1
                /\ call.ids = [i \in DOMAIN made |-> made[i].chunk_id]
                /\ call.outcome = "return"
                      => \A i \in DOMAIN made :
                            /\ call.ids[i] \in DOMAIN collection
                            /\ call.ids[i] \notin DOMAIN before
                                  => collection[call.ids[i]]
                                         = RecordOf(made[i])

\* C23: a call of ingest_documents that accumulated at least one chunk calls
\* the embedding service once; when that call raises, the store is not
\* called and the collection is as it was; when it returns, the store is
\* called once, with the ids of all the chunks of all the documents in
\* order, and a record it writes holds the text, the embedding and the
\* metadata of the chunk at the position of its id.
C23_OneEmbedThenOneWrite ==
    last.op \in {"ingest_documents", "reingest"}
    => EmbeddedThenWritten(last, last.before, LastChunks)

\* two documents gave three or more chunks, all written by the one call
C23_Witness ==
    /\ last.op = "ingest_documents"
    /\ last.embed_ok
    /\ last.outcome = "return"
    /\ Len(last.paths) >= 2
    /\ Len(LastChunks) >= 3
    /\ last.value = Len(LastChunks)
    /\ \A i \in DOMAIN last.ids : last.ids[i] \notin DOMAIN last.before

\* C28: the ids one call of ingest_documents hands to the store are pairwise
\* distinct, whatever the list of paths: two paths with one file name and a
\* path given twice included.
C28_WrittenIdsDistinct ==
    (last.op = "ingest_documents" /\ last.add_calls = 1)
    => \A i, j \in DOMAIN last.ids : i # j => last.ids[i] # last.ids[j]

(***************************************************************************)
(* Properties of retrieve, under SpecRetrieve.                             *)
(***************************************************************************)
\* C4: retrieve(query, top_k=k) with k >= 0 given returns at most k results.
C4_AtMostTopK ==
    (last.op = "retrieve" /\ last.top_k # None)
    => Len(last.value) <= last.top_k[1]

\* C5: retrieve returns the store's records in the store's order, the i-th
\* result with the text, metadata and distance of the store's i-th record
\* and similarity 1 - distance; the store answering nearest first, the list
\* is sorted by non-increasing similarity.
C5_StoreOrderAndSimilarity ==
    (last.op = "retrieve" /\ last.health = "up")
    => /\ Len(last.value) = Len(last.answer)
       /\ \A i \in DOMAIN last.value :
             /\ last.value[i].text = collection[last.answer[i]].document
             /\ last.value[i].metadata = collection[last.answer[i]].metadata
             /\ last.value[i].distance =
                    distance(collection[last.answer[i]].embedding,
                             embed_text(last.query))
             /\ last.value[i].similarity = 1 - last.value[i].distance
       /\ \A i, j \in DOMAIN last.value :
             i < j => last.value[i].similarity >= last.value[j].similarity

\* three results at two or more distances
C5_Witness ==
    /\ last.op = "retrieve"
    /\ last.health = "up"
    /\ Len(last.value) = 3
    /\ last.value[1].distance < last.value[3].distance

\* the records of the collection that a where filter lets through
Matching(where) ==
    {id \in DOMAIN collection : where_matches(collection[id].metadata, where)}

\* C6: retrieve never raises; when the sentence model or the store fails, or
\* no record matches, it returns the empty list; it leaves the collection
\* as it was.
C6_RetrieveNeverRaises ==
    last.op = "retrieve" =>
        /\ last.outcome = "return"
        /\ collection = last.before
        /\ (last.health # "up" \/ Matching(last.where) = {}) => last.value = <<>>

\* the store failed on a query that records of the collection match
C6_Witness ==
    /\ last.op = "retrieve"
    /\ last.health = "store_down"
    /\ Matching(last.where) # {}
    /\ last.value = <<>>

(***************************************************************************)
(* SpecManager: threads call RAGManager.initialize on the singleton, one   *)
(* statement of the method at a time, and construct RAGManager() again.    *)
(* The method holds no lock, so the statements of two calls interleave.    *)
(***************************************************************************)
InitManager ==
    /\ RagIdle
    /\ AppIdle

\* the thread's next statement, with what it has read or built so far
Goto(t, pc, local) ==
    thr' = [thr EXCEPT ![t] = [local EXCEPT !.pc = pc]]

\* a thread enters rag_manager.initialize(embedding_model=...)
CallInitialize(t) ==
    /\ mgr = rag_manager \/ mgr.pipeline # None
    /\ thr[t].pc \in {"idle", "returned", "raised"}
    /\ thr[t].calls < MaxCalls
    /\ \E args \in InitializeArgs :
          Goto(t, "check", [ThreadStart EXCEPT !.args = args,
                                               !.calls = thr[t].calls + 1])
    /\ UNCHANGED <<mgr, built>>
    /\ UNCHANGED exceptManager

\* if self.pipeline is not None: return
CheckInitialized(t) ==
    /\ thr[t].pc = "check"
    /\ Goto(t, IF mgr.pipeline # None THEN "returned" ELSE "construct",
             thr[t])
    /\ UNCHANGED <<mgr, built>>
    /\ UNCHANGED exceptManager

\* RAGPipeline(...): the model is loaded and the store opened, or it raises
ConstructPipeline(t) ==
    /\ thr[t].pc = "construct"
    /\ \E ok \in BOOLEAN :
          IF ok
          THEN /\ built' = built + 1
               /\ Goto(t, "store_pipeline",
                       [thr[t] EXCEPT !.pipeline =
                            Given(RAGPipeline(built + 1, thr[t].args))])
          ELSE /\ built' = built
               /\ Goto(t, "raised", thr[t])
    /\ UNCHANGED mgr
    /\ UNCHANGED exceptManager

\* self.pipeline = <the pipeline constructed>
StorePipeline(t) ==
    /\ thr[t].pc = "store_pipeline"
    /\ mgr' = [mgr EXCEPT !.pipeline = thr[t].pipeline]
    /\ Goto(t, "load_embedding", thr[t])
    /\ UNCHANGED built
    /\ UNCHANGED exceptManager

\* the right-hand side self.pipeline.embedding_service; an attribute of None
\* is an AttributeError, which the except clause raises again
LoadEmbedding(t) ==
    /\ thr[t].pc = "load_embedding"
    /\ IF mgr.pipeline = None
       THEN Goto(t, "raised", thr[t])
       ELSE Goto(t, "store_embedding",
                 [thr[t] EXCEPT !.embedding_service =
                      Given(mgr.pipeline[1].embedding_service)])
    /\ UNCHANGED <<mgr, built>>
    /\ UNCHANGED exceptManager

\* self.embedding_service = <what was read>
StoreEmbedding(t) ==
    /\ thr[t].pc = "store_embedding"
    /\ mgr' = [mgr EXCEPT !.embedding_service = thr[t].embedding_service]
    /\ Goto(t, "load_collection", thr[t])
    /\ UNCHANGED built
    /\ UNCHANGED exceptManager

\* the argument collection=self.pipeline.get_collection()
LoadCollection(t) ==
    /\ thr[t].pc = "load_collection"
    /\ IF mgr.pipeline = None
       THEN Goto(t, "raised", thr[t])
       ELSE Goto(t, "load_service",
                 [thr[t] EXCEPT !.collection =
                      Given(mgr.pipeline[1].collection)])
    /\ UNCHANGED <<mgr, built>>
    /\ UNCHANGED exceptManager

\* the argument embedding_service=self.embedding_service
LoadService(t) ==
    /\ thr[t].pc = "load_service"
    /\ Goto(t, "store_retrieval",
            [thr[t] EXCEPT !.es_arg = mgr.embedding_service])
    /\ UNCHANGED <<mgr, built>>
    /\ UNCHANGED exceptManager

\* self.retrieval_service = RetrievalService(...); the method returns
StoreRetrieval(t) ==
    /\ thr[t].pc = "store_retrieval"
    /\ mgr' = [mgr EXCEPT !.retrieval_service =
                   Given(RetrievalService(thr[t].collection[1],
                                          thr[t].es_arg))]
    /\ Goto(t, "returned", thr[t])
    /\ UNCHANGED built
    /\ UNCHANGED exceptManager

\* RAGManager() runs: first on the module's last line, later anywhere
ConstructManager ==
    /\ mgr' = RAGManager(mgr)
    /\ UNCHANGED <<thr, built>>
    /\ UNCHANGED exceptManager

NextManager ==
    \/ \E t \in Threads : CallInitialize(t)
    \/ \E t \in Threads : CheckInitialized(t)
    \/ \E t \in Threads : ConstructPipeline(t)
    \/ \E t \in Threads : StorePipeline(t)
    \/ \E t \in Threads : LoadEmbedding(t)
    \/ \E t \in Threads : StoreEmbedding(t)
    \/ \E t \in Threads : LoadCollection(t)
    \/ \E t \in Threads : LoadService(t)
    \/ \E t \in Threads : StoreRetrieval(t)
    \/ ConstructManager

SpecManager == InitManager /\ [][NextManager]_vars

(***************************************************************************)
(* Properties of RAGManager, under SpecManager.                            *)
(***************************************************************************)
\* no thread is inside initialize
Quiescent == \A t \in Threads : thr[t].pc \in {"idle", "returned", "raised"}

\* C11: however two threads' calls of initialize interleave, at most one
\* RAGPipeline is constructed, and once the calls have returned the
\* retrieval service holds the collection of the manager's pipeline.
C11_SingleInitialization ==
    /\ built <= 1
    /\ (Quiescent /\ mgr.retrieval_service # None)
       => mgr.retrieval_service[1].collection = mgr.pipeline[1].collection

MaxResults == 2

\* metadata with and without a section header and a file name
ContextMetadatas ==
    {<< >>,
     [filename |-> "a.md"],
     [section_header |-> <<"c">>],
     [section_header |-> << >>, filename |-> "b.md"],
     [section_header |-> <<"c">>, filename |-> "a.md"]}

ContextChunks == [text : {<<"a">>, DocB}, metadata : ContextMetadatas]

ContextLists ==
    UNION {[1..n -> ContextChunks] : n \in 0..MaxResults}

FormatContext ==
    /\ last = Idle
    /\ \E retrieved \in ContextLists :
          last' = [op |-> "format_context", chunks |-> retrieved,
                   value |-> format_context(retrieved)]
    /\ UNCHANGED <<fs, collection>>
    /\ UNCHANGED chunkVars
    /\ UNCHANGED appVars

NextContext ==
    \/ FormatContext
    \/ Observe

SpecContext == Init /\ [][NextContext]_vars

(***************************************************************************)
(* Properties of format_context, under SpecContext.                        *)
(***************************************************************************)
\* the lines of the block of the i-th result
BlockLines(chunk, i) ==
    <<ReferenceOpen \o <<ToString(i), "]">>>>
    \o (IF "section_header" \in DOMAIN chunk.metadata
           /\ chunk.metadata.section_header # << >>
        THEN <<Tail(SectionLabel) \o chunk.metadata.section_header>>
        ELSE << >>)
    \o <<Tail(SourceLabel)
           \o (IF "filename" \in DOMAIN chunk.metadata
               THEN FileNameChars[chunk.metadata.filename]
               ELSE DefaultSource)>>
    \o <<<<"C", "o", "n", "t", "e", "n", "t", ":">>>>
    \o <<chunk.text>>

\* C17: format_context of the empty list is the fixed sentence; of a
\* non-empty list it is one block per result, numbered from 1 in input
\* order, each a reference line, a Section line only when a non-empty
\* section header is present, a Source line (file name, or
\* 'Policy Document'), a Content line and the text, each line ended by a
\* newline, the blocks joined by the line '---'.
C17_FormatContextBlocks ==
    last.op = "format_context"
    => IF last.chunks = << >>
       THEN last.value = NoPolicyFound
       ELSE last.value =
                join([i \in 1..Len(last.chunks) |->
                         join(BlockLines(last.chunks[i], i), <<NL>>)
                         \o <<NL>>],
                     <<NL, "-", "-", "-", NL>>)

\* two results, the first without a section header, the second with one
C17_Witness ==
    /\ last.op = "format_context"
    /\ Len(last.chunks) = 2
    /\ "section_header" \notin DOMAIN last.chunks[1].metadata
    /\ "filename" \notin DOMAIN last.chunks[1].metadata
    /\ last.chunks[2].metadata = [section_header |-> <<"c">>,
                                  filename |-> "a.md"]

(***************************************************************************)
(* SpecAgent: chat requests run the agent on new and existing              *)
(* conversations, conversations are ended, and the RAG manager is          *)
(* initialized or not; the collection is empty or holds one policy.        *)
(***************************************************************************)
PolicyFiles ==
    [p \in PathSet |->
        IF p = [dir |-> "d1", stem |-> "a", ext |-> "md"]
        THEN TextFile(DocB) ELSE NoFile]

\* the collection after the policy directory d1 was ingested
PolicyCollection ==
    ingest_from_directory(EmptyCollection, PolicyFiles, TRUE,
                          <<[dir |-> "d1", stem |-> "a", ext |-> "md"]>>,
                          TRUE).after

Employees == {1}
ConversationIds == {None} \cup {Given(id) : id \in 1..MaxConversations}
Intents == {"POLICY_QUESTION", "HR_REQUEST", "NONE"}
Faults == {"none", "retrieve", "format_context"}

InitAgent ==
    /\ cs = PipelineConfig
    /\ content = <<>>
    /\ chunks = <<>>
    /\ phase = "idle"
    /\ fs = PolicyFiles
    /\ collection \in {EmptyCollection, PolicyCollection}
    /\ last = Idle
    /\ mgr = rag_manager
    /\ thr = [t \in Threads |-> ThreadStart]
    /\ built = 0
    /\ tables = EmptyDb
    /\ leave = SeededLeaveDb

\* rag_manager.initialize() is called, by one caller
InitializeManager ==
    /\ last = Idle
    /\ mgr.pipeline = None
    /\ \E args \in InitializeArgs :
          mgr' = initialize(mgr, RAGPipeline(built + 1, args))
    /\ built' = built + 1
    /\ UNCHANGED <<thr, tables, leave>>
    /\ UNCHANGED ragVars

\* the conversations a request may create: one in Step 1 when its id is
\* absent or unknown, one more in the except clause when it is absent
may_create(req) ==
    IF req.conversation_id = None THEN 2
    ELSE IF get_by_conversation_id(tables, req.conversation_id[1]) = None THEN 1
    ELSE 0

\* a call of run_hr_agent ends: the database is as the call left it
Ran(call, r) ==
    /\ tables' = r.db
    /\ last' = call @@ [path |-> r.path, agent_ran |-> r.agent_ran,
                        policy_context |-> r.policy_context,
                        conversation_id |-> r.conversation_id,
                        success |-> r.success, turn |-> r.turn]
    /\ UNCHANGED <<mgr, thr, built, leave>>
    /\ UNCHANGED <<fs, collection>>
    /\ UNCHANGED chunkVars

RunHrAgent ==
    /\ last = Idle
    /\ Len(tables.messages) + 2 <= MaxMessages
    /\ \E req \in [message : Queries, employee_id : Employees,
                    conversation_id : ConversationIds],
          env \in [db_ok : BOOLEAN, intent : Intents,
                   health : {"up", "model_down", "store_down"},
                   fault : Faults, agent_ok : BOOLEAN] :
          /\ Cardinality(DOMAIN tables.conversations) + may_create(req)
                 <= MaxConversations
          /\ \E answer \in query_results(collection, embed_text(req.message),
                                          ServiceTopK, None) :
                Ran([op |-> "run_hr_agent", request |-> req, env |-> env,
                     initialized |-> mgr.retrieval_service # None],
                    run_hr_agent(tables, mgr, collection, req,
                                 env @@ [answer |-> answer]))

\* POST /conversations/{conversation_id}/end
EndConversation ==
    /\ last = Idle
    /\ \E id \in 1..MaxConversations :
          /\ tables' = end_conversation(tables, id).db
          /\ last' = [op |-> "end_conversation", conversation_id |-> id,
                      success |-> end_conversation(tables, id).success]
    /\ UNCHANGED <<mgr, thr, built, leave>>
    /\ UNCHANGED <<fs, collection>>
    /\ UNCHANGED chunkVars

NextAgent ==
    \/ InitializeManager
    \/ RunHrAgent
    \/ EndConversation
    \/ Observe

SpecAgent == InitAgent /\ [][NextAgent]_vars

(***************************************************************************)
(* Properties of run_hr_agent, under SpecAgent.                            *)
(***************************************************************************)
\* the last request was classified POLICY_QUESTION and its retrieval met a
\* problem: no initialized manager, an exception, a service down or no chunk
RetrievalProblem ==
    /\ last.op = "run_hr_agent"
    /\ last.env.db_ok
    /\ last.env.intent = "POLICY_QUESTION"
    /\ \/ ~last.initialized
       \/ last.env.fault # "none"
       \/ last.env.health # "up"
       \/ collection = EmptyCollection

\* C13: for a message classified POLICY_QUESTION, whatever goes wrong in
\* retrieval, the agent is run and its policy context is one of the two
\* non-empty placeholders; the request takes the error path only when the
\* agent run itself fails.
C13_RetrievalNeverFailsRequest ==
    RetrievalProblem
    => /\ last.agent_ran
       /\ last.policy_context \in {NoRelevantPolicy, UnableToRetrieve}
       /\ last.policy_context # << >>
       /\ (last.path = "error") => ~last.env.agent_ok

\* an exception inside format_context on an initialized manager with
\* chunks in the collection, and the request answered
C13_Witness ==
    /\ RetrievalProblem
    /\ last.initialized
    /\ last.env.fault = "format_context"
    /\ last.env.health = "up"
    /\ collection # EmptyCollection
    /\ last.path = "ok"
    /\ last.policy_context = UnableToRetrieve

\* the messages saved under a conversation id
MessagesOf(d, id) ==
    SelectSeq(d.messages, LAMBDA msg : msg.conversation_id = id)

\* C19: a chat request that carries the id of a conversation ended with
\* status COMPLETED saves no message under that id and leaves its
\* turn_count as it is.
C19_EndedConversationStaysClosed ==
    [][\A id \in DOMAIN tables.conversations :
          (/\ tables.conversations[id].status = "COMPLETED"
           /\ last'.op = "run_hr_agent"
           /\ last'.request.conversation_id = Given(id))
          => /\ MessagesOf(tables', id) = MessagesOf(tables, id)
             /\ tables'.conversations[id].turn_count
                    = tables.conversations[id].turn_count]_vars

(***************************************************************************)
(* SpecScenario: the pipeline's chunking service on 1200-character         *)
(* documents of one section: the letter a throughout, but for blank lines  *)
(* at up to MaxCuts of the offsets 100, 200, ... 1100.                     *)
(***************************************************************************)
MaxCuts == 2

CutOffsets == {100 * k : k \in 1..11}

\* the document with a blank line ("\n\n") at each offset of cuts
ScenarioDoc(cuts) ==
    [i \in 1..1200 |-> IF i \in cuts \/ (i - 1) \in cuts THEN NL ELSE "a"]

ScenarioDocs ==
    {ScenarioDoc(cuts) : cuts \in {c \in SUBSET CutOffsets :
                                      Cardinality(c) <= MaxCuts}}

InitScenario ==
    /\ cs = PipelineConfig
    /\ content \in ScenarioDocs
    /\ chunks = <<>>
    /\ phase = "input"
    /\ fs = [p \in PathSet |-> NoFile]
    /\ collection = EmptyCollection
    /\ last = Idle
    /\ AppIdle

NextScenario == ChunkMarkdown

SpecScenario == InitScenario /\ [][NextScenario]_vars

\* C14: a 1200-character document of one section, chunked with
\* chunk_size=500, chunk_overlap=100, min_chunk_size=100, gives exactly
\* 3 chunks, however blank lines divide it into paragraphs.
C14_ThreeChunks ==
    (/\ phase = "done"
     /\ cs = PipelineConfig
     /\ Len(content) = 1200
     /\ Len(Sections) = 1)
    => Len(chunks) = 3

(***************************************************************************)
(* Round-trip coverage of chunk_markdown, under SpecChunk.                 *)
(***************************************************************************)
\* s without its white space
NonSpace(s) == SelectSeq(s, LAMBDA c : ~IsSpace(c))

\* pat occurs in s, contiguously
Occurs(pat, s) ==
    \E j \in 1..(Len(s) - Len(pat) + 1) : SubSeq(s, j, j + Len(pat) - 1) = pat

\* a is b with some of its elements left out
RECURSIVE IsSubsequence(_, _)
IsSubsequence(a, b) ==
    IF a = << >> THEN TRUE
    ELSE IF b = << >> THEN FALSE
    ELSE IF Head(a) = Head(b) THEN IsSubsequence(Tail(a), Tail(b))
    ELSE IsSubsequence(a, Tail(b))

\* the texts of the chunks from the k-th on, one after the other
RECURSIVE TextFrom(_, _)
TextFrom(list, k) ==
    IF k > Len(list) THEN << >> ELSE list[k].text \o TextFrom(list, k + 1)

\* the lines of the document that are not white space, stripped
ContentLines ==
    SelectSeq([i \in 1..Len(split(content, <<NL>>)) |->
                  strip(split(content, <<NL>>)[i])],
              LAMBDA l : l # << >>)

\* the lines from the i-th on are found in the chunks from the k-th on, each
\* in the chunk of the line before it or in a later one
RECURSIVE FoundInOrder(_, _, _)
FoundInOrder(lines, i, k) ==
    IF i > Len(lines) THEN TRUE
    ELSE LET at == {j \in k..Len(chunks) : Occurs(lines[i], chunks[j].text)}
         IN  at # {} /\ FoundInOrder(lines, i + 1, MinOf(at))

StartsWith(s, prefix) ==
    Len(s) >= Len(prefix) /\ SubSeq(s, 1, Len(prefix)) = prefix

\* the chunks _split_with_overlap gives for a section of the document
SplitOf(section) ==
    split_with_overlap(cs, section.text, DocMetadata(content), 0,
                       section.start_index)

\* the chunk after `closed` starts with the overlap taken from `closed`, a
\* blank line and a paragraph of the section
SeededBy(closed, following, paragraphs) ==
    \E j \in DOMAIN paragraphs :
        StartsWith(following.text,
                   suffix(closed.text, cs.chunk_overlap) \o <<NL, NL>>
                       \o paragraphs[j])

\* C21: in an oversized section split with a positive overlap, the chunk that
\* follows a chunk closed by overflow starts with the last
\* min(chunk_overlap, len) characters of that chunk's text, a blank line and
\* the paragraph that overflowed, whatever the paragraphs hold.
C21_OverlapSeedsNextChunk ==
    (phase = "done" /\ cs.chunk_overlap > 0)
    => \A s \in DOMAIN Sections :
          Len(Sections[s].text) > cs.chunk_size
          => \A k \in 1..(Len(SplitOf(Sections[s])) - 1) :
                SeededBy(SplitOf(Sections[s])[k], SplitOf(Sections[s])[k + 1],
                         split(Sections[s].text, <<NL, NL>>))

\* `out` is the join of `earlier` and `later`
JoinOf(out, earlier, later) ==
    /\ out.text = earlier.text \o <<NL, NL>> \o later.text
    /\ out.chunk_id = earlier.chunk_id
    /\ out.metadata = earlier.metadata
    /\ out.start_index = earlier.start_index
    /\ out.end_index = later.end_index

\* out[i..] is in[j..] with each chunk kept or joined with the one after it
RECURSIVE KeptOrJoined(_, _, _, _)
KeptOrJoined(out, i, in, j) ==
    IF i > Len(out) THEN j > Len(in)
    ELSE \/ /\ j <= Len(in)
            /\ out[i] = in[j]
            /\ KeptOrJoined(out, i + 1, in, j + 1)
         \/ /\ j + 1 <= Len(in)
            /\ JoinOf(out[i], in[j], in[j + 1])
            /\ KeptOrJoined(out, i + 1, in, j + 2)

MaxTexts == 4
MaxBatch == 3

EmbedTexts == {<<"a">>, <<"a", "a">>, <<"#", "#">>}
EmbedLists == UNION {[1..n -> EmbedTexts] : n \in 0..MaxTexts}
BatchSizes == (1..MaxBatch) \cup {EmbedBatchSize}

EmbedBatch ==
    /\ last = Idle
    /\ \E texts \in EmbedLists, batch_size \in BatchSizes :
          last' = [op |-> "embed_batch", texts |-> texts,
                   batch_size |-> batch_size,
                   value |-> embed_batch(texts, batch_size)]
    /\ UNCHANGED <<fs, collection>>
    /\ UNCHANGED chunkVars
    /\ UNCHANGED appVars

NextEmbed ==
    \/ EmbedBatch
    \/ Observe

SpecEmbed == Init /\ [][NextEmbed]_vars

\* C16: embed_batch(texts, batch_size) returns len(texts) vectors, the i-th
\* the embedding of texts[i], whether or not batch_size divides len(texts).
C16_EmbedBatchOrder ==
    last.op = "embed_batch"
    => /\ Len(last.value) = Len(last.texts)
       /\ \A i \in 1..Len(last.texts) :
             last.value[i] = embed_text(last.texts[i])

\* several batches, the last one short, of texts that are not all alike
C16_Witness ==
    /\ last.op = "embed_batch"
    /\ last.batch_size > 1
    /\ Len(last.texts) > last.batch_size
    /\ Len(last.texts) % last.batch_size # 0
    /\ \E i, j \in 1..Len(last.texts) :
          embed_text(last.texts[i]) # embed_text(last.texts[j])

(***************************************************************************)
(* SpecProcess: processes start one after the other on the same persisted  *)
(* collection, each with the embedding model its configuration names, and  *)
(* ingest.  The default model gives vectors of two numbers, the other      *)
(* model vectors of three.                                                 *)
(***************************************************************************)
MaxProcesses == 3

\* self.model.encode(text) of the model named
encode_as(model, text) ==
    IF model = "default" THEN encode(text)
    ELSE encode(text) \o <<Len(text) % 2>>

\* EmbeddingService.get_embedding_dimension
get_embedding_dimension(model) == Len(encode_as(model, << >>))

\* _init_chroma: the collection of that name if the store has one (with
\* the records it holds), a new one otherwise; the dimension is not looked at
init_chroma(store, model) == store

\* Chroma refuses embeddings whose dimension is not the collection's
dimension_mismatch(store, embeddings) ==
    \E id \in DOMAIN store, i \in DOMAIN embeddings :
        Len(store[id].embedding) # Len(embeddings[i])

\* "Step 3" to "Step 5" with the embedding service of the model named
embed_and_store_as(model, store, texts, ids, metadatas) ==
    IF has_duplicates(ids)
       \/ dimension_mismatch(store,
              [i \in DOMAIN texts |-> encode_as(model, texts[i])])
    THEN [outcome |-> "raise", value |-> 0, after |-> store]
    ELSE [outcome |-> "return", value |-> Len(ids),
          after |-> store_chunks(store, ids,
                        [i \in DOMAIN texts |-> encode_as(model, texts[i])],
                        texts, metadatas)]

\* ingest_documents from "if not all_chunks" on, for the model named
ingest_chunks_as(model, store, all_chunks) ==
    IF all_chunks = <<>>
    THEN [outcome |-> "return", value |-> 0, after |-> store]
    ELSE embed_and_store_as(model, store,
            [i \in DOMAIN all_chunks |-> all_chunks[i].text],
            [i \in DOMAIN all_chunks |-> all_chunks[i].chunk_id],
            [i \in DOMAIN all_chunks |-> stored_metadata(all_chunks[i])])

\* ingest_documents of a pipeline whose embedding service has the model named
ingest_documents_as(model, store, files, document_paths) ==
    ingest_chunks_as(model, store, load_and_chunk(files, document_paths, 1))

InitProcess ==
    /\ cs = PipelineConfig
    /\ content = <<>>
    /\ chunks = <<>>
    /\ phase = "idle"
    /\ fs = PolicyFiles
    /\ collection = EmptyCollection
    /\ last = Idle
    /\ mgr = rag_manager
    /\ thr = [t \in Threads |-> ThreadStart]
    /\ built = 0
    /\ tables = EmptyDb
    /\ leave = SeededLeaveDb

\* a process starts: initialize() with the configured embedding model opens
\* the persisted collection
StartProcess ==
    /\ last = Idle
    /\ mgr.pipeline = None
    /\ built < MaxProcesses
    /\ \E args \in InitializeArgs :
          /\ mgr' = initialize(mgr, RAGPipeline(built + 1, args))
          /\ collection' = init_chroma(collection, args.embedding_model)
    /\ built' = built + 1
    /\ UNCHANGED <<thr, tables, leave, fs, last>>
    /\ UNCHANGED chunkVars

\* the process exits: the next one imports rag_manager anew, the collection
\* stays on disk
ExitProcess ==
    /\ last = Idle
    /\ mgr.pipeline # None
    /\ mgr' = rag_manager
    /\ UNCHANGED <<thr, built, tables, leave>>
    /\ UNCHANGED ragVars

\* a call of ingest_documents_as ends
IngestedAs(call, r) ==
    /\ collection' = r.after
    /\ last' = call @@ [outcome |-> r.outcome, value |-> r.value]
    /\ UNCHANGED fs
    /\ UNCHANGED chunkVars
    /\ UNCHANGED appVars

\* the process ingests, with the embedding service of its pipeline
IngestAs ==
    /\ last = Idle
    /\ mgr.pipeline # None
    /\ \E paths \in PathLists :
          IngestedAs([op |-> "ingest_documents", paths |-> paths,
                      embed_ok |-> TRUE, before |-> collection],
                     ingest_documents_as(mgr.pipeline[1].embedding_model,
                                         collection, fs, paths))

NextProcess ==
    \/ StartProcess
    \/ ExitProcess
    \/ IngestAs
    \/ Observe

SpecProcess == InitProcess /\ [][NextProcess]_vars

\* C18: while a pipeline is open, every record of its collection has an
\* embedding of the dimension of the pipeline's embedding provider, also in
\* a process that opened a populated collection with another model.
C18_StoredDimensionIsProviders ==
    mgr.pipeline # None
    => \A id \in DOMAIN collection :
          Len(collection[id].embedding)
              = get_embedding_dimension(mgr.pipeline[1].embedding_model)

(***************************************************************************)
(* SpecLeave: employees apply for leave, approvers decide, employees       *)
(* cancel; one call of LeaveService at a time.                             *)
(***************************************************************************)
InitLeave == Init

EmployeeIds == EmployeeRows \cup {3}
LeaveTypeCodes == {"ANNUAL", "X"}
Dates == 0..MaxDay
RequestIds == 1..(MaxRequests + 1)
ApprovalActions == {"APPROVED", "REJECTED"}
Approvers == {1}

\* a call of LeaveService ends
Served(call, r) ==
    /\ leave' = r.db
    /\ last' = call @@ [outcome |-> r.outcome]
    /\ UNCHANGED <<mgr, thr, built, tables>>
    /\ UNCHANGED <<fs, collection>>
    /\ UNCHANGED chunkVars

ApplyLeave ==
    /\ last = Idle
    /\ Len(leave.requests) < MaxRequests
    /\ \E employee_id \in EmployeeIds, code \in LeaveTypeCodes,
          start_date \in Dates, end_date \in Dates :
          Served([op |-> "apply_leave", employee_id |-> employee_id,
                  request_id |-> 0],
                 apply_leave(leave, employee_id, code, start_date, end_date))

ApproveLeave ==
    /\ last = Idle
    /\ \E request_id \in RequestIds, approver \in Approvers,
          action \in ApprovalActions :
          Served([op |-> "approve_leave", employee_id |-> approver,
                  request_id |-> request_id],
                 approve_leave(leave, request_id, approver, action))

CancelLeave ==
    /\ last = Idle
    /\ \E request_id \in RequestIds, employee_id \in EmployeeIds :
          Served([op |-> "cancel_leave", employee_id |-> employee_id,
                  request_id |-> request_id],
                 cancel_leave(leave, request_id, employee_id))

NextLeave ==
    \/ ApplyLeave
    \/ ApproveLeave
    \/ CancelLeave
    \/ Observe

SpecLeave == InitLeave /\ [][NextLeave]_vars

\* the inclusive range of the request and [start_date, end_date] share a day
Intersects(request, start_date, end_date) ==
    request.start_date <= end_date /\ request.end_date >= start_date

\* the requests of the employee that are PENDING or APPROVED
ActiveOf(employee_id) ==
    {id \in DOMAIN leave.requests :
        /\ leave.requests[id].employee_id = employee_id
        /\ leave.requests[id].status \in {"PENDING", "APPROVED"}}

OnSettledOrForeign ==
    /\ last = Idle
    /\ last' # Idle
    /\ last'.op \in {"approve_leave", "cancel_leave"}
    /\ last'.request_id \in DOMAIN leave.requests
    /\ \/ leave.requests[last'.request_id].status # "PENDING"
       \/ /\ last'.op = "cancel_leave"
          /\ leave.requests[last'.request_id].employee_id
                 # last'.employee_id

\* a request that is not PENDING is the same row after the step
SettledKept ==
    \A id \in DOMAIN leave.requests :
        (leave.requests[id].status # "PENDING")
        => (/\ id \in DOMAIN leave'.requests
            /\ leave'.requests[id] = leave.requests[id])

\* the call raised LeaveServiceException and wrote nothing
Refused ==
    /\ last'.outcome = "LeaveServiceException"
    /\ leave' = leave

\* C20: a request that is not PENDING keeps its status in every step; an
\* approve_leave or cancel_leave on such a request, and a cancel_leave by
\* another employee than the owner, raises LeaveServiceException and leaves
\* requests, balances and approvals as they were.
C20_StatusChangesOnlyWhilePending ==
    [][SettledKept /\ (OnSettledOrForeign => Refused)]_vars

\* an approve_leave on an APPROVED request was refused, and so was a
\* cancel_leave by the owner on a request that is no longer PENDING
C20_Witness ==
    /\ last # Idle
    /\ last.op \in {"approve_leave", "cancel_leave"}
    /\ last.request_id \in DOMAIN leave.requests
    /\ leave.requests[last.request_id].status = "APPROVED"
    /\ last.outcome = "LeaveServiceException"
    /\ leave.approvals # << >>
    /\ \E k \in DOMAIN leave.balances : leave.balances[k].used > 0

(***************************************************************************)
(* SpecBlank: the files are empty, white space only, or a document of one  *)
(* section; a client ingests them and observes each outcome.               *)
(***************************************************************************)
BlankFileStates == {TextFile(<<>>), TextFile(<<" ", NL>>), TextFile(DocA)}

InitBlank ==
    /\ cs = PipelineConfig
    /\ content = <<>>
    /\ chunks = <<>>
    /\ phase = "idle"
    /\ fs \in [PathSet -> BlankFileStates]
    /\ collection = EmptyCollection
    /\ last = Idle
    /\ AppIdle

NextBlank ==
    \/ IngestDocuments
    \/ Observe

SpecBlank == InitBlank /\ [][NextBlank]_vars

\* C24: no record of the collection has an empty text, and a call of
\* ingest_documents that returned counts the chunks with text only: the chunk
\* without text of an empty or white-space document is neither embedded,
\* stored nor counted.
C24_NoEmptyTextStored ==
    /\ \A id \in DOMAIN collection : collection[id].document # <<>>
    /\ (last.op = "ingest_documents" /\ last.outcome = "return")
          => last.value = Cardinality({i \in DOMAIN LastChunks :
                                          LastChunks[i].text # <<>>})

(***************************************************************************)
(* RAGManager.ensure_ingested.  A policy directory that does not exist is  *)
(* created, empty, before it is listed.                                    *)
(***************************************************************************)
\* a call that ingests without looking at collection.count()
ensure_ingested_uncounted(m, store, files, listing, embed_ok) ==
    IF m.pipeline = None
    THEN [outcome |-> "RuntimeError", value |-> 0, ids |-> <<>>,
          after |-> store, embed_calls |-> 0, add_calls |-> 0]
    ELSE ingest_from_directory(store, files, TRUE, listing, embed_ok)

\* rag_manager.ensure_ingested(policy_directory), the directory listed as
\* `listing`
ensure_ingested(m, store, files, listing, embed_ok) ==
    IF m.pipeline = None
    THEN [outcome |-> "RuntimeError", value |-> 0, ids |-> <<>>,
          after |-> store, embed_calls |-> 0, add_calls |-> 0]
    ELSE IF Cardinality(DOMAIN store) = 0
    THEN ingest_from_directory(store, files, TRUE, listing, embed_ok)
    ELSE [outcome |-> "return", value |-> 0, ids |-> <<>>, after |-> store,
          embed_calls |-> 0, add_calls |-> 0]

(***************************************************************************)
(* SpecEnsure: the manager is initialized at some point; a client calls    *)
(* ensure_ingested before and after, on directories that hold documents or *)
(* none, and observes each outcome.                                        *)
(***************************************************************************)
InitEnsure ==
    /\ cs = PipelineConfig
    /\ content = <<>>
    /\ chunks = <<>>
    /\ phase = "idle"
    /\ fs \in [PathSet -> {NoFile, TextFile(DocA), TextFile(DocB)}]
    /\ collection = EmptyCollection
    /\ last = Idle
    /\ mgr = rag_manager
    /\ thr = [t \in Threads |-> ThreadStart]
    /\ built = 0
    /\ tables = EmptyDb
    /\ leave = SeededLeaveDb

EnsureIngested ==
    /\ last = Idle
    /\ \E directory \in Directories, embed_ok \in BOOLEAN :
          \E listing \in glob_lists(fs, PathSet, directory, "md") :
             Ingested([op |-> "ensure_ingested", directory |-> directory,
                       listing |-> listing, embed_ok |-> embed_ok,
                       before |-> collection,
                       initialized |-> mgr.pipeline # None],
                      ensure_ingested(mgr, collection, fs, listing, embed_ok))

NextEnsure ==
    \/ InitializeManager
    \/ EnsureIngested
    \/ Observe

SpecEnsure == InitEnsure /\ [][NextEnsure]_vars

\* the chunks of the documents of the directory the last call listed
ListedChunks == load_and_chunk(fs, loaded_paths(fs, last.listing, 1), 1)

\* C25: ensure_ingested on a manager that is not initialized raises
\* RuntimeError and leaves the collection alone; on a collection that holds
\* records it calls neither the embedding service nor the store; on an empty
\* collection it ingests the directory: it embeds when the directory gives
\* chunks, and writes when the embedding returns.
C25_IngestsExactlyWhenEmpty ==
    last.op = "ensure_ingested"
    => /\ ~last.initialized
             => /\ last.outcome = "RuntimeError"
                /\ last.embed_calls = 0 /\ last.add_calls = 0
                /\ collection = last.before
       /\ (last.initialized /\ last.before # EmptyCollection)
             => /\ last.outcome = "return"
                /\ last.embed_calls = 0 /\ last.add_calls = 0
                /\ collection = last.before
       /\ (last.initialized /\ last.before = EmptyCollection)
             => /\ last.embed_calls = (IF ListedChunks # <<>> THEN 1 ELSE 0)
                /\ last.add_calls =
                      (IF ListedChunks # <<>> /\ last.embed_ok THEN 1 ELSE 0)
                /\ (last.outcome = "return" /\ ListedChunks # <<>>)
                      => collection # EmptyCollection

\* a second call, on the collection a first call filled, for a directory
\* that holds documents
C25_Witness ==
    /\ last.op = "ensure_ingested"
    /\ last.initialized
    /\ last.before # EmptyCollection
    /\ ListedChunks # <<>>
    /\ last.embed_ok
    /\ collection = last.before

(***************************************************************************)
(* RAGManager.initialize when the constructor of RAGPipeline may raise:    *)
(* `construct` is "ok", "model_fails" (EmbeddingService._load_model        *)
(* raises) or "store_fails" (_init_chroma raises).                         *)
(***************************************************************************)
\* an initialize that assigns self.pipeline before the store is opened
initialize_call_half_built(m, p, construct) ==
    IF m.pipeline # None
    THEN [outcome |-> "return", attempted |-> FALSE, m |-> m]
    ELSE IF construct = "model_fails"
    THEN [outcome |-> "raise", attempted |-> TRUE, m |-> m]
    ELSE IF construct = "store_fails"
    THEN [outcome |-> "raise", attempted |-> TRUE,
          m |-> [m EXCEPT !.pipeline = Given(p)]]
    ELSE [outcome |-> "return", attempted |-> TRUE, m |-> initialize(m, p)]

\* rag_manager.initialize(...) by one caller: the exception of the
\* constructor is logged and raised again, nothing having been assigned
initialize_call(m, p, construct) ==
    IF m.pipeline # None
    THEN [outcome |-> "return", attempted |-> FALSE, m |-> m]
    ELSE IF construct # "ok"
    THEN [outcome |-> "raise", attempted |-> TRUE, m |-> m]
    ELSE [outcome |-> "return", attempted |-> TRUE, m |-> initialize(m, p)]

\* rag_manager.get_retrieval_service()
get_retrieval_service(m) ==
    IF m.retrieval_service = None THEN "RuntimeError" ELSE "return"

(***************************************************************************)
(* SpecStartup: a process calls initialize, which may fail, then           *)
(* get_retrieval_service and ensure_ingested, and initialize again.  Here  *)
(* `built` counts the calls of the constructor RAGPipeline(...), failed    *)
(* ones included.                                                          *)
(***************************************************************************)
InitStartup == InitProcess

\* a call of initialize ends
Initialized(call, r) ==
    /\ mgr' = r.m
    /\ built' = IF r.attempted THEN built + 1 ELSE built
    /\ last' = call @@ [outcome |-> r.outcome, attempted |-> r.attempted]
    /\ UNCHANGED <<thr, tables, leave>>
    /\ UNCHANGED <<fs, collection>>
    /\ UNCHANGED chunkVars

Initialize ==
    /\ last = Idle
    /\ built <= MaxCalls
    /\ \E args \in InitializeArgs,
          construct \in {"ok", "model_fails", "store_fails"} :
          Initialized([op |-> "initialize", construct |-> construct,
                       was_initialized |-> mgr.pipeline # None,
                       calls_before |-> built],
                      initialize_call(mgr, RAGPipeline(built + 1, args),
                                      construct))

GetRetrievalService ==
    /\ last = Idle
    /\ last' = [op |-> "get_retrieval_service",
                outcome |-> get_retrieval_service(mgr)]
    /\ UNCHANGED <<fs, collection>>
    /\ UNCHANGED chunkVars
    /\ UNCHANGED appVars

NextStartup ==
    \/ Initialize
    \/ GetRetrievalService
    \/ EnsureIngested
    \/ Observe

SpecStartup == InitStartup /\ [][NextStartup]_vars

\* C26: an initialize whose constructor raises, raises, and leaves pipeline
\* and retrieval_service None; while they are None, get_retrieval_service
\* and ensure_ingested raise RuntimeError, and every initialize calls the
\* constructor again, being initialized when the constructor succeeds.
C26_FailedInitializeLeavesUninitialized ==
    /\ (last.op = "initialize" /\ ~last.was_initialized)
          => /\ last.attempted
             /\ last.construct # "ok"
                   => /\ last.outcome = "raise"
                      /\ mgr.pipeline = None
                      /\ mgr.retrieval_service = None
             /\ last.construct = "ok"
                   => /\ last.outcome = "return"
                      /\ mgr.pipeline # None
                      /\ mgr.retrieval_service # None
    /\ (mgr.pipeline = None
        /\ last.op \in {"get_retrieval_service", "ensure_ingested"})
          => last.outcome = "RuntimeError"

\* the second call of initialize succeeded after the first had failed
C26_Witness ==
    /\ last.op = "initialize"
    /\ last.calls_before = 1
    /\ ~last.was_initialized
    /\ last.construct = "ok"
    /\ mgr.retrieval_service # None

(***************************************************************************)
(* SpecLeaveRace: two requests are served at once, each with a database    *)
(* session of its own (get_db); a call of approve_leave or cancel_leave    *)
(* runs from one await to the next, and the other call runs in between.    *)
(* The session is made with expire_on_commit=False and keeps the rows it   *)
(* has loaded: a row selected again is the object loaded before.           *)
(***************************************************************************)
\* a task outside LeaveService
TaskIdle ==
    [pc |-> "idle", calls |-> 0, op |-> "none", request_id |-> 0,
     person |-> 0, action |-> "none", request |-> None, balance |-> None]

InitLeaveRace ==
    /\ RagIdle
    /\ mgr = ManagerClass
    /\ built = 0
    /\ tables = EmptyDb
    /\ leave = SeededLeaveDb
    /\ thr = [t \in Threads |-> TaskIdle]

\* the task goes on to its next await, or leaves the method (pc "idle") and
\* its locals are gone
Await(t, pc, local) ==
    /\ thr' = [thr EXCEPT ![t] =
                  IF pc = "idle" THEN [TaskIdle EXCEPT !.calls = local.calls]
                  ELSE [local EXCEPT !.pc = pc]]
    /\ UNCHANGED <<mgr, built, tables>>
    /\ UNCHANGED ragVars

\* apply_leave, taken at its one write, the create that follows its reads
TaskApply(t) ==
    /\ thr[t].pc = "idle"
    /\ Len(leave.requests) < MaxRequests
    /\ \E employee_id \in EmployeeIds, code \in LeaveTypeCodes,
          start_date \in Dates, end_date \in Dates :
          leave' = apply_leave(leave, employee_id, code, start_date,
                               end_date).db
    /\ Await(t, "idle", thr[t])

\* approve_leave(db, request_id, approver_person_id, action) is called
CallApprove(t) ==
    /\ thr[t].pc = "idle"
    /\ thr[t].calls < MaxCalls
    /\ \E request_id \in RequestIds, approver \in Approvers,
          action \in ApprovalActions :
          Await(t, "read_request",
                [TaskIdle EXCEPT !.calls = thr[t].calls + 1,
                                 !.op = "approve_leave",
                                 !.request_id = request_id,
                                 !.person = approver, !.action = action])
    /\ UNCHANGED leave

\* cancel_leave(db, request_id, employee_id) is called
CallCancel(t) ==
    /\ thr[t].pc = "idle"
    /\ thr[t].calls < MaxCalls
    /\ \E request_id \in RequestIds, employee_id \in EmployeeIds :
          Await(t, "read_request",
                [TaskIdle EXCEPT !.calls = thr[t].calls + 1,
                                 !.op = "cancel_leave",
                                 !.request_id = request_id,
                                 !.person = employee_id,
                                 !.action = "CANCELLED"])
    /\ UNCHANGED leave

\* where the method goes after LeaveRequestRepository.get_by_id returned row
after_read_request(task, row) ==
    IF row = None THEN "idle"
    ELSE IF task.op = "cancel_leave" /\ row[1].employee_id # task.person
    THEN "idle"
    ELSE IF row[1].status # "PENDING" THEN "idle"
    ELSE IF task.op = "cancel_leave" THEN "update_status"
    ELSE IF task.action = "APPROVED" THEN "read_balance"
    ELSE "create_approval"

\* await LeaveRequestRepository.get_by_id, and the checks on its result
ReadRequest(t) ==
    /\ thr[t].pc = "read_request"
    /\ Await(t, after_read_request(thr[t],
                    LeaveRequestRepository_get_by_id(leave, thr[t].request_id)),
             [thr[t] EXCEPT !.request =
                  LeaveRequestRepository_get_by_id(leave, thr[t].request_id)])
    /\ UNCHANGED leave

\* where approve_leave goes after LeaveBalanceRepository.get_balance
after_read_balance(task, row) ==
    IF row = None \/ row[1].remaining < task.request[1].total_days
    THEN "idle" ELSE "update_balance"

\* await LeaveBalanceRepository.get_balance in "# 2.", and its check
ReadBalance(t) ==
    /\ thr[t].pc = "read_balance"
    /\ Await(t, after_read_balance(thr[t],
                    LeaveBalanceRepository_get_balance(leave,
                        thr[t].request[1].employee_id,
                        thr[t].request[1].leave_type_id)),
             [thr[t] EXCEPT !.balance =
                  LeaveBalanceRepository_get_balance(leave,
                      thr[t].request[1].employee_id,
                      thr[t].request[1].leave_type_id)])
    /\ UNCHANGED leave

\* the row update_balance writes: the balance it holds, days_to_deduct moved
\* from remaining to used
deducted(balance, days_to_deduct) ==
    [balance EXCEPT !.used = @ + days_to_deduct,
                    !.remaining = @ - days_to_deduct]

\* await LeaveBalanceRepository.update_balance: the balance it changes is the
\* object the session loaded in "# 2." or, should the second select refresh
\* it, the row as it is now
UpdateBalance(t) ==
    /\ thr[t].pc = "update_balance"
    /\ \E held \in {thr[t].balance[1],
                     leave.balances[<<thr[t].request[1].employee_id,
                                      thr[t].request[1].leave_type_id>>]} :
          leave' = [leave EXCEPT
                      !.balances[<<thr[t].request[1].employee_id,
                                   thr[t].request[1].leave_type_id>>] =
                          deducted(held, thr[t].request[1].total_days)]
    /\ Await(t, "create_approval", thr[t])

\* await LeaveApprovalRepository.create
CreateApproval(t) ==
    /\ thr[t].pc = "create_approval"
    /\ leave' = LeaveApprovalRepository_create(leave,
                    [leave_request_id |-> thr[t].request_id,
                     approver_person_id |-> thr[t].person,
                     action |-> thr[t].action])
    /\ Await(t, "update_status", thr[t])

\* await LeaveRequestRepository.update_status: the row gets the status,
\* whatever its status is by now, and the method returns
UpdateStatus(t) ==
    /\ thr[t].pc = "update_status"
    /\ leave' = LeaveRequestRepository_update_status(leave,
                    thr[t].request_id, thr[t].action)
    /\ Await(t, "idle", thr[t])

NextLeaveRace ==
    \/ \E t \in Threads : TaskApply(t)
    \/ \E t \in Threads : CallApprove(t)
    \/ \E t \in Threads : CallCancel(t)
    \/ \E t \in Threads : ReadRequest(t)
    \/ \E t \in Threads : ReadBalance(t)
    \/ \E t \in Threads : UpdateBalance(t)
    \/ \E t \in Threads : CreateApproval(t)
    \/ \E t \in Threads : UpdateStatus(t)

SpecLeaveRace == InitLeaveRace /\ [][NextLeaveRace]_vars

\* the requests on balance k that an approval has approved
ApprovedOn(k) ==
    {id \in DOMAIN leave.requests :
        /\ <<leave.requests[id].employee_id,
              leave.requests[id].leave_type_id>> = k
        /\ \E a \in DOMAIN leave.approvals :
              /\ leave.approvals[a].leave_request_id = id
              /\ leave.approvals[a].action = "APPROVED"}

\* the total_days of the requests ids, summed
RECURSIVE SumOfDays(_)
SumOfDays(ids) ==
    IF ids = {} THEN 0
    ELSE LET id == CHOOSE x \in ids : TRUE
         IN leave.requests[id].total_days + SumOfDays(ids \ {id})

\* no call of LeaveService is under way
NoCallUnderWay == \A t \in Threads : thr[t].pc = "idle"

\* C29: however approve_leave, cancel_leave and apply_leave calls interleave
\* at their awaits, every balance keeps used + remaining, its remaining is
\* never negative, and once the calls have returned its used is the sum of
\* the total_days of the requests that were approved
C29_DeductedOnceAndWithinBalance ==
    \A k \in DOMAIN leave.balances :
        /\ leave.balances[k].used + leave.balances[k].remaining
             = leave.balances[k].total_allocated
        /\ leave.balances[k].remaining >= 0
        /\ NoCallUnderWay =>
             leave.balances[k].used = SumOfDays(ApprovedOn(k))

(***************************************************************************)
(* SpecSave: tasks of the one event loop call save_message of the          *)
(* process-wide conversation_manager, each with a database session of its  *)
(* own; a call runs from one await to the next.  The lock of the manager   *)
(* is held by the task that is inside an "async with self._lock" body.     *)
(***************************************************************************)
\* a task outside ConversationManager
SaveIdle ==
    [pc |-> "idle", calls |-> 0, conversation_id |-> 0, sequence_number |-> 0,
     stored |-> 0, result |-> "none"]

InitSave ==
    /\ RagIdle
    /\ mgr = ManagerClass
    /\ built = 0
    /\ tables = EmptyDb
    /\ leave = SeededLeaveDb
    /\ thr = [t \in Threads |-> SaveIdle]

\* the positions inside the body of "async with self._lock" of save_message
InLock == {"get_by_conversation_id", "get_last_message", "commit", "refresh"}

\* a save_message that enters its body whoever is inside
enter_unlocked(tasks) == TRUE

\* async with self._lock: the body is entered when no task is inside one
async_with_lock(tasks) == \A t \in Threads : tasks[t].pc \notin InLock

\* the task goes on to its next await
SaveAwait(t, local) ==
    /\ thr' = [thr EXCEPT ![t] = local]
    /\ UNCHANGED <<mgr, built, leave>>
    /\ UNCHANGED ragVars

\* the method is left: with return True, return False, or the exception of
\* a database call
SaveLeft(t, result) ==
    SaveAwait(t, [thr[t] EXCEPT !.pc = "idle", !.result = result])

\* ConversationManager.create_conversation, its body run while it has the lock
CreateConversation(t) ==
    /\ thr[t].pc = "idle"
    /\ async_with_lock(thr)
    /\ Cardinality(DOMAIN tables.conversations) < MaxConversations
    /\ \E employee_id \in EmployeeRows :
          tables' = create_conversation(tables, employee_id).db
    /\ SaveAwait(t, thr[t])

\* save_message(db, conversation_id, sender_type, content) is called and
\* waits for the lock
CallSaveMessage(t) ==
    /\ thr[t].pc = "idle"
    /\ thr[t].calls < MaxCalls
    /\ \E conversation_id \in 1..(MaxConversations + 1) :
          SaveAwait(t, [SaveIdle EXCEPT !.pc = "async with",
                                        !.calls = thr[t].calls + 1,
                                        !.conversation_id = conversation_id])
    /\ UNCHANGED tables

\* async with self._lock
EnterLock(t) ==
    /\ thr[t].pc = "async with"
    /\ async_with_lock(thr)
    /\ SaveAwait(t, [thr[t] EXCEPT !.pc = "get_by_conversation_id"])
    /\ UNCHANGED tables

\* await ConversationRepository.get_by_conversation_id, "if not db_conv"
VerifyConversation(t) ==
    /\ thr[t].pc = "get_by_conversation_id"
    /\ \/ SaveLeft(t, "raised")
       \/ /\ get_by_conversation_id(tables, thr[t].conversation_id) = None
          /\ SaveLeft(t, "False")
       \/ /\ get_by_conversation_id(tables, thr[t].conversation_id) # None
          /\ SaveAwait(t, [thr[t] EXCEPT !.pc = "get_last_message"])
    /\ UNCHANGED tables

\* MessageRepository.create: await get_last_message, and the next number
GetLastMessage(t) ==
    /\ thr[t].pc = "get_last_message"
    /\ \/ SaveLeft(t, "raised")
       \/ SaveAwait(t, [thr[t] EXCEPT
                          !.pc = "commit",
                          !.sequence_number =
                              last_sequence_number(tables,
                                  thr[t].conversation_id) + 1])
    /\ UNCHANGED tables

\* Message(...) with the sequence_number worked out before, db.add
added_message(db, conversation_id, sequence_number) ==
    [db EXCEPT !.messages =
        Append(@, [conversation_id |-> conversation_id,
                   sender_type |-> "USER",
                   content |-> "m",
                   intent |-> NoIntent,
                   sequence_number |-> sequence_number])]

\* MessageRepository.create: db.add(message), await db.commit()
CommitMessage(t) ==
    /\ thr[t].pc = "commit"
    /\ \/ /\ SaveLeft(t, "raised")
          /\ UNCHANGED tables
       \/ /\ tables' = added_message(tables, thr[t].conversation_id,
                                      thr[t].sequence_number)
          /\ SaveAwait(t, [thr[t] EXCEPT
                             !.pc = "refresh",
                             !.stored = Len(tables.messages) + 1])

\* MessageRepository.create: await db.refresh(message); return True
ReturnTrue(t) ==
    /\ thr[t].pc = "refresh"
    /\ SaveLeft(t, "True")
    /\ UNCHANGED tables

NextSave ==
    \/ \E t \in Threads : CreateConversation(t)
    \/ \E t \in Threads : CallSaveMessage(t)
    \/ \E t \in Threads : EnterLock(t)
    \/ \E t \in Threads : VerifyConversation(t)
    \/ \E t \in Threads : GetLastMessage(t)
    \/ \E t \in Threads : CommitMessage(t)
    \/ \E t \in Threads : ReturnTrue(t)

SpecSave == InitSave /\ [][NextSave]_vars

\* the sequence numbers of a conversation's messages, in the order stored
NumbersOf(db, conversation_id) ==
    LET mine == SelectSeq(db.messages,
                    LAMBDA m : m.conversation_id = conversation_id)
    IN  [i \in DOMAIN mine |-> mine[i].sequence_number]

\* every conversation's messages are numbered 1..n in the order stored
NumberedInOrder(db) ==
    \A c \in 1..(MaxConversations + 1) :
        \A i \in DOMAIN NumbersOf(db, c) : NumbersOf(db, c)[i] = i

\* task t returns True from save_message in this step
Completes(t) == thr[t].pc = "refresh" /\ thr'[t].result = "True"

\* the message t stored is the latest of its conversation
StoredLatest(t) ==
    \A j \in DOMAIN tables'.messages :
        j > thr[t].stored =>
            tables'.messages[j].conversation_id # thr[t].conversation_id

\* task t finds in this step that its conversation_id is unknown
FindsUnknown(t) ==
    /\ thr[t].pc = "get_by_conversation_id"
    /\ thr'[t].pc # "get_by_conversation_id"
    /\ get_by_conversation_id(tables, thr[t].conversation_id) = None

\* nothing is stored and save_message is left without True
RefusedUnknown(t) ==
    /\ tables' = tables
    /\ thr'[t].pc = "idle"
    /\ thr'[t].result \in {"False", "raised"}

\* C30: however save_message calls through conversation_manager interleave,
\* the messages of every conversation carry the sequence numbers 1..n in the
\* order the saves completed, and a save_message for an unknown
\* conversation_id returns False and stores nothing
C30_SequenceNumbersFollowCompletion ==
    [][/\ NumberedInOrder(tables')
       /\ \A t \in Threads : Completes(t) => StoredLatest(t)
       /\ \A t \in Threads : FindsUnknown(t) => RefusedUnknown(t)]_vars

\* one task has stored a message and not yet returned while the other waits
\* for the lock to save to the same conversation, which has a message from
\* before
C30_Witness ==
    \E t \in Threads, u \in Threads :
        /\ thr[t].pc = "refresh"
        /\ thr[u].pc = "async with"
        /\ thr[u].conversation_id = thr[t].conversation_id
        /\ thr[t].sequence_number = 2

====
